---- MODULE Spec2Model ----
(***************************************************************************)
(* A model of reblok's reactive container (create / set / batch and the    *)
(* concurrent modes debounce, throttle and droppable).                     *)
(*                                                                         *)
(* A container's state object {data, loading, error} is replaced by a      *)
(* fresh object on every change (changeState); the field `id` stands for   *)
(* the identity of that object, which the async staleness guard compares   *)
(* (snapshot !== state).                                                   *)
(***************************************************************************)
EXTENDS Integers, Sequences, FiniteSets, TLC

\* ------------------------------------------------------------------ bounds
NumBloks == 3
MaxValue == 2
MaxCalls == 3
MaxFutures == 2
MaxMutations == 3
MaxModeCalls == 3
MaxDepth == 2
MaxBatches == 2
MaxTime == 5
Ms == 2
MaxOps == 4
MaxSourceOps == 2
MaxFamilyOps == 5
MaxHydOps == 5
MaxHydBatches == 1
MaxRefreshOps == 5
MaxWaitOps == 6
MaxWaitBatches == 1
MaxEmitterOps == 7
MaxListeners == 3
MaxMergeOps == 4
MaxUpdates == 4
MaxDisposes == 2
MaxActions == 4
MaxBatchCalls == 3

\* ------------------------------------------------------------------ values
Bloks == 1..NumBloks

\* The number NaN, the one value that === never finds equal to itself.
NaN == MaxValue + 1
Values == {NaN} \cup (0..MaxValue)

Undefined == "undefined"
AbortError == "AbortError"
Errors == {"E1"}
Reasons == Errors \cup {AbortError}

\* a === b on numbers
StrictEquals(a, b) == a = b /\ a # NaN

\* Object.is(a, b), the default comparer (+0/-0 are not told apart here)
ObjectIs(a, b) == a = b

\* a comparer passed as options.compare: numbers of the same parity are equal
ParityCompare(a, b) == a # NaN /\ b # NaN /\ (a % 2) = (b % 2)

Comparers == {"Object.is", "parity"}

\* what set() is called with: a plain value, a promise, or an updater
\* function, which returns a value, returns a promise or throws
Kinds == {"value", "promise", "updaterValue", "updaterPromise", "updaterThrow"}
NextData ==
    [kind : {"value"}, x : Values, e : {Undefined}]
      \cup [kind : {"updaterValue"}, x : 0..1, e : {Undefined}]
      \cup [kind : {"promise", "updaterPromise"}, x : {0}, e : {Undefined}]
      \cup [kind : {"updaterThrow"}, x : {0}, e : Errors]
SyncData == {nd \in NextData : nd.kind \in {"value", "updaterValue", "updaterThrow"}}
NoData == [kind |-> "none", x |-> 0, e |-> Undefined]

\* the data of a container nothing has been written to: undefined
UndefinedData == MaxValue + 2

\* an object: a reference (its identity) and the content of its one property
Obj(ref, content) == 100 + 10 * ref + content
IsObj(v) == v >= 100
Content(v) == (v - 100) % 10

\* what options.compare of a family is: Object.is, or shallow
KeyComparers == {"Object.is", "shallow"}

\* typeof nextData?.then === "function", after an updater has been run
IsThenable(nd) == nd.kind \in {"promise", "updaterPromise"}

\* a ConcurrentController, or undefined
NoController == [kind |-> Undefined, token |-> 0]
IsObject(cc) == cc.kind # Undefined

VARIABLES
    state,                \* state[b]: the container's state object, with its identity
    compare,              \* compare[b]: options.compare ?? Object.is
    changes,              \* changes[b]: how often the emitter has emitted to the listeners
    futures,              \* the promises passed to set, with their then-callbacks' closure
    mutationCount,        \* batch: the reentrancy counter
    batchChanges,         \* batch: the pending notify set, in insertion order
    concurrentContext,    \* concurrentContext[b]: the bag the modes keep their state in
    concurrentController, \* concurrentController[b]: what the last mode returned
    timers,               \* pending setTimeout callbacks
    timerSeq,             \* the last timer handle handed out
    now,                  \* Date.now()
    calls,                \* ghost: calls[b], number of set calls without mode so far
    lastSet,              \* ghost: lastSet[b], the argument of the latest set call
    lastLanded,           \* ghost: lastLanded[b], the latest set call that changed the state
    settled,              \* ghost: number of futures settled so far
    batches,              \* ghost: number of outermost batches entered so far
    entry,                \* ghost: changes at the entry of the outermost batch
    touched,              \* ghost: containers changed in the batch, in order of first change
    flushLog,             \* ghost: containers notified by the latest flush, in order
    muts,                 \* ghost: muts[b], state changes of b inside the current batch
    deepest,              \* ghost: the deepest nesting the current batch has reached
    modeLog,              \* ghost: the calls of set with a mode
    realized,             \* ghost: the updates the modes' callbacks carried out
    initialData,          \* initialData[b]: the producer create was called with, if any
    initialized,          \* initialized[b]: whether init has run (true unless lazy)
    produced,             \* ghost: produced[b], how often the producer has been invoked
    lastOp,               \* ghost: the latest read, listen, reset or write, and their number
    link,                 \* the derived container: whether from() made it, its options
    selLog,               \* ghost: the number of runs of the derived container's selector, and the last
    map,                  \* family: the Map of members, in insertion order
    memberKey,            \* family: memberKey[m], the key the dispose of m closes over
    famCompare,           \* family: options.compare ?? Object.is
    famLog,               \* ghost: the get, dispose and clear calls made so far
    hydratedData,         \* hydrate: the Map of slots, in insertion order
    lastDehyratedData,    \* hydrate: the cached result of dehydrate, if any
    prevData,             \* hydrate: prevData[b], what the change listener of b last saw
    slotOf,               \* ghost: slotOf[b], the slot container b was created for
    returned,             \* ghost: the collection dehydrate returned last
    origin,               \* ghost: the collection the store was hydrated from
    hydLog,               \* ghost: the latest call on the store, and their number
    autoRefresh,          \* options.autoRefresh of container 1: a number or a scheduler
    autoRefreshTimer,     \* the handle of the last timeout autoRefresh has set
    disposed,             \* whether dispose() of container 1 has run
    refreshes,            \* the refresh callbacks a timeout or the scheduler holds
    refLog,               \* ghost: the latest call on container 1, and their number
    waitPromise,          \* waitPromise of container 1: the cached promise, if any
    promises,             \* the promises wait() has made
    episode,              \* ghost: how often container 1 has started loading
    waitLog,              \* ghost: the latest call on container 1, and their number
    handlers,             \* emitter: the handlers array
    indexesChanged,       \* emitter: the token a removal renews
    registrations,        \* emitter: what each unsubscribe function closes over
    emission,             \* emitter: the emit call in progress, its snapshot and place
    emitLog,              \* ghost: the calls made on the emitter, the last emission
    mergeLog,             \* ghost: the latest call on the profile, the objects made
    lastUpdateContext,    \* the closure variable of container 1: a context, or 0
    updateContexts,       \* the UpdateContext objects made, their abortController
    updateLog,            \* ghost: the latest set call with an UpdateContext in play
    unlink,               \* from: the unsubscribe functions shifted out and called
    actLog,               \* ghost: the latest call of an action, what the reducer got
    outcome               \* ghost: the batch calls in progress, how the last one ended

vars == <<state, compare, changes, futures, mutationCount, batchChanges,
          concurrentContext, concurrentController, timers, timerSeq, now,
          calls, lastSet, lastLanded, settled, batches, entry, touched,
          flushLog, muts, deepest, modeLog, realized, initialData, initialized,
          produced, lastOp, link, selLog, map, memberKey, famCompare, famLog,
          hydratedData, lastDehyratedData, prevData, slotOf, returned, origin,
          hydLog, autoRefresh, autoRefreshTimer, disposed, refreshes, refLog,
          waitPromise, promises, episode, waitLog, handlers, indexesChanged,
          registrations, emission, emitLog, mergeLog, lastUpdateContext,
          updateContexts, updateLog, unlink, actLog, outcome>>

batchVars == <<mutationCount, batches, entry, flushLog, deepest>>
modeVars == <<concurrentContext, concurrentController, timers, timerSeq, now,
              modeLog, realized>>
lazyVars == <<initialData, initialized, produced, lastOp>>
linkVars == <<link, selLog>>
famVars == <<map, memberKey, famCompare, famLog>>
hydVars == <<hydratedData, lastDehyratedData, prevData, slotOf, returned, origin,
             hydLog>>
refVars == <<autoRefresh, autoRefreshTimer, disposed, refreshes, refLog>>
waitVars == <<waitPromise, promises, episode, waitLog>>
emitVars == <<handlers, indexesChanged, registrations, emission, emitLog>>
updVars == <<lastUpdateContext, updateContexts, updateLog>>
moreVars == <<hydVars, refVars, waitVars, emitVars, mergeLog, updVars, unlink, actLog, outcome>>
notHyd == <<refVars, waitVars, emitVars, mergeLog, updVars, unlink, actLog, outcome>>
notRef == <<hydVars, waitVars, emitVars, mergeLog, updVars, unlink, actLog, outcome>>
notWait == <<hydVars, refVars, emitVars, mergeLog, updVars, unlink, actLog, outcome>>
notEmit == <<hydVars, refVars, waitVars, mergeLog, updVars, unlink, actLog, outcome>>
notMerge == <<hydVars, refVars, waitVars, emitVars, updVars, unlink, actLog, outcome>>
notUpd == <<hydVars, refVars, waitVars, emitVars, mergeLog, unlink, actLog, outcome>>
notUnlink == <<hydVars, refVars, waitVars, emitVars, mergeLog, updVars, actLog, outcome>>
notAct == <<hydVars, refVars, waitVars, emitVars, mergeLog, updVars, unlink, outcome>>
notOutcome == <<hydVars, refVars, waitVars, emitVars, mergeLog, updVars, unlink,
               actLog>>
extVars == <<lazyVars, linkVars, famVars, moreVars>>

\* --------------------------------------------------------------- container

Compare(b, x, y) ==
    IF compare[b] = "Object.is" THEN ObjectIs(x, y) ELSE ParityCompare(x, y)

\* { ...state, ...change }
Spread(s, change) ==
    [f \in DOMAIN s |-> IF f \in DOMAIN change THEN change[f] ELSE s[f]]

\* changeState: the state object after the call; a change makes a new object
ChangeState(s, change) ==
    LET nextState == Spread(s, change)
    IN  IF /\ StrictEquals(s.data, nextState.data)
           /\ s.error = nextState.error
           /\ s.loading = nextState.loading
        THEN s
        ELSE [nextState EXCEPT !.id = s.id + 1]

\* whether changeState called notify(): it does exactly when it replaced state
Notified(s, t) == t.id # s.id

\* Set.prototype.add, were it to move a member that is added again to the end
SetAddLast(seq, x) ==
    Append(SelectSeq(seq, LAMBDA y : y # x), x)

\* Set.prototype.add
SetAdd(seq, x) ==
    IF \E i \in DOMAIN seq : seq[i] = x THEN seq ELSE Append(seq, x)

\* notify() of container b, called or not
Notify(b, called) ==
    IF ~called
    THEN UNCHANGED <<batchChanges, changes, touched, muts>>
    ELSE IF mutationCount > 0
    THEN /\ batchChanges' = SetAdd(batchChanges, b)
         /\ touched' = IF muts[b] > 0 THEN touched ELSE Append(touched, b)
         /\ muts' = [muts EXCEPT ![b] = @ + 1]
         /\ UNCHANGED changes
    ELSE /\ changes' = [changes EXCEPT ![b] = @ + 1]
         /\ UNCHANGED <<batchChanges, touched, muts>>

\* set(nextData) without mode, were the async branch to leave the error standing
SetStateKeepsError(b, s, nd) ==
    IF nd.kind = "updaterThrow"
    THEN ChangeState(s, [loading |-> FALSE, error |-> nd.e])
    ELSE IF IsThenable(nd)
    THEN ChangeState(s, [loading |-> TRUE])
    ELSE ChangeState(s, [data |-> IF Compare(b, nd.x, s.data) THEN s.data ELSE nd.x,
                         error |-> Undefined,
                         loading |-> FALSE])

\* the state object after set(nextData) without mode
SetState(b, s, nd) ==
    IF nd.kind = "updaterThrow"
    THEN ChangeState(s, [loading |-> FALSE, error |-> nd.e])
    ELSE IF IsThenable(nd)
    THEN ChangeState(s, [error |-> Undefined, loading |-> TRUE])
    ELSE ChangeState(s, [data |-> IF Compare(b, nd.x, s.data) THEN s.data ELSE nd.x,
                         error |-> Undefined,
                         loading |-> FALSE])

\* the local `cc` of a set call without mode: declared, and assigned only in
\* the mode branch, which returns
LocalCc == NoController

\* the then-callbacks registered by set(promise), with what they close over
Then(b, s, t, cc) ==
    [blok |-> b, snapshot |-> t.id, cc |-> cc, status |-> "pending",
     x |-> 0, e |-> Undefined,
     issue |-> calls[b] + 1, wasLoading |-> s.loading, order |-> 0, after |-> 0,
     landed |-> FALSE]

\* set(nextData) without mode, as one step of the program
SetCall(b, nd) ==
    LET s == state[b]
        t == SetState(b, s, nd)
    IN  /\ state' = [state EXCEPT ![b] = t]
        /\ futures' = IF IsThenable(nd)
                      THEN Append(futures, Then(b, s, t, LocalCc))
                      ELSE futures
        /\ Notify(b, Notified(s, t))
        /\ calls' = [calls EXCEPT ![b] = @ + 1]
        /\ lastSet' = [lastSet EXCEPT ![b] = nd]
        /\ lastLanded' = IF Notified(s, t)
                         THEN [lastLanded EXCEPT ![b] = calls[b] + 1]
                         ELSE lastLanded

\* snapshot !== state, never
StaleNever(snapshot, s) == FALSE

\* snapshot !== state
Stale(snapshot, s) == snapshot # s.id

\* cc.done(): droppable's controller clears its own token
Done(cc, context) ==
    IF IsObject(cc) /\ cc.token = context.updatingToken
    THEN [context EXCEPT !.updatingToken = 0]
    ELSE context

\* the then-callbacks, were the rejection handler to drop every error
SettleStateSwallows(f, s, ok, x, e) ==
    IF Stale(f.snapshot, s)
    THEN s
    ELSE IF ok
    THEN ChangeState(s, [data |-> x, loading |-> FALSE, error |-> Undefined])
    ELSE ChangeState(s, [loading |-> FALSE, error |-> Undefined])

\* the then-callbacks, were the rejection handler to store every error
SettleStateStores(f, s, ok, x, e) ==
    IF Stale(f.snapshot, s)
    THEN s
    ELSE IF ok
    THEN ChangeState(s, [data |-> x, loading |-> FALSE, error |-> Undefined])
    ELSE ChangeState(s, [loading |-> FALSE, error |-> e])

\* the state after a promise's then-callback has run
SettleState(f, s, ok, x, e) ==
    IF Stale(f.snapshot, s)
    THEN s
    ELSE IF ok
    THEN ChangeState(s, [data |-> x, loading |-> FALSE, error |-> Undefined])
    ELSE ChangeState(s, [loading |-> FALSE,
                         error |-> IF e = AbortError THEN Undefined ELSE e])

\* the then-callback of a promise passed to set, apart from what the
\* listeners do
ThenCallback(i, ok, x, e) ==
    LET f == futures[i]
        b == f.blok
        s == state[b]
        t == SettleState(f, s, ok, x, e)
    IN  /\ f.status = "pending"
        /\ mutationCount = 0
        /\ concurrentContext' =
               [concurrentContext EXCEPT ![b] = Done(f.cc, @)]
        /\ state' = [state EXCEPT ![b] = t]
        /\ Notify(b, Notified(s, t))
        /\ futures' = [futures EXCEPT ![i] =
               [f EXCEPT !.status = IF ok THEN "resolved" ELSE "rejected",
                         !.x = IF ok THEN x ELSE 0,
                         !.e = IF ok THEN Undefined ELSE e,
                         !.order = settled + 1,
                         !.after = t.id,
                         !.landed = Notified(s, t)]]
        /\ settled' = settled + 1
        /\ lastLanded' = IF Notified(s, t)
                         THEN [lastLanded EXCEPT ![b] = f.issue]
                         ELSE lastLanded
        /\ UNCHANGED <<compare, concurrentController, timers, timerSeq, now,
                       calls, lastSet, modeLog, realized>>
        /\ UNCHANGED batchVars

\* a promise passed to set settles: it resolves with x (ok), or rejects with e
Settle(i, ok, x, e) ==
    /\ ThenCallback(i, ok, x, e)
    /\ UNCHANGED extVars

\* ------------------------------------------------------------------- Init

NoContext == [debounceTimer |-> 0, throttleLastExecution |-> 0, updatingToken |-> 0]

\* of(key): getHydrateOf(key, undefined, false), no member key
NoMember == 0

\* the slots of the store: of(1), ofMember(2, 1), and ofMember(1, 1), which
\* takes the key of a container for a family
HydSlots == {[key |-> 1, member |-> NoMember], [key |-> 2, member |-> 1],
             [key |-> 1, member |-> 1]}

\* no container: the blok field of a slot nothing has attached to
NoBlok == 0

\* let prevData = {}: an object no data is identical to
Fresh == MaxValue + 3

\* the data slots are written with
HydValues == {1}

\* the data the store's containers are created with
HydInitial == 0

\* lastDehyratedData = undefined
NoCollection == [id |-> 0, entries |-> <<>>]

\* the container was made without options.hydrate, or not yet
NoSlot == [key |-> 0, member |-> NoMember]

\* no call has been made on the store
NoCall == [n |-> 0, op |-> "none", stateChanged |-> FALSE, dataChanged |-> FALSE,
           written |-> [slot \in HydSlots |-> UndefinedData]]

\* no call has been made on the container with autoRefresh
NoRefresh == [n |-> 0, op |-> "none", late |-> FALSE, disposes |-> 0]

\* no call has been made on the container that is waited for
NoWait == [n |-> 0, op |-> "none", result |-> 0]

\* no emit call is in progress
NoEmission == [on |-> FALSE, snapshot |-> <<>>, at |-> 0, due |-> <<>>]

\* no call has been made on the emitter
NoEmit == [n |-> 0, emits |-> 0, cleared |-> FALSE, invoked |-> <<>>, due |-> <<>>]

\* no call has been made on the profile
NoMerge == [n |-> 0, op |-> "none", partial |-> <<>>, made |-> 0]

\* no set call has been made with an UpdateContext in play
NoUpdate == [n |-> 0, superseded |-> 0]

\* dispose() of the derived container has not been called
NoUnlink == [shifted |-> <<>>, called |-> <<0, 0>>, disposes |-> 0]

\* no action has been called
NoAction == [n |-> 0, reducer |-> "none", outer |-> <<>>, received |-> <<>>]

\* no batch call has been made
NoOutcome == [stack |-> <<>>, propagating |-> FALSE, throws |-> 0, returns |-> 0]

\* no operation has been made
NoOp == [n |-> 0, op |-> "none", blok |-> 0]

\* the selector has not run
NoSelection == [n |-> 0, last |-> "none"]

\* no derived container has been made
NoLink == [on |-> FALSE, mode |-> "none", selector |-> "none", handled |-> 0]

\* everything but the containers' own state and options, before the program
\* has done anything
InitBase ==
    /\ changes = [b \in Bloks |-> 0]
    /\ futures = <<>>
    /\ mutationCount = 0
    /\ batchChanges = <<>>
    /\ concurrentContext = [b \in Bloks |-> NoContext]
    /\ concurrentController = [b \in Bloks |-> NoController]
    /\ timers = {}
    /\ timerSeq = 0
    /\ now = 1
    /\ calls = [b \in Bloks |-> 0]
    /\ lastSet = [b \in Bloks |-> NoData]
    /\ lastLanded = [b \in Bloks |-> 0]
    /\ settled = 0
    /\ batches = 0
    /\ entry = [b \in Bloks |-> 0]
    /\ touched = <<>>
    /\ flushLog = <<>>
    /\ muts = [b \in Bloks |-> 0]
    /\ deepest = 0
    /\ modeLog = <<>>
    /\ realized = <<>>
    /\ produced = [b \in Bloks |-> 0]
    /\ lastOp = NoOp
    /\ selLog = NoSelection
    /\ map = <<>>
    /\ memberKey = <<>>
    /\ famCompare \in KeyComparers
    /\ famLog = <<>>
    /\ hydratedData = <<>>
    /\ lastDehyratedData = NoCollection
    /\ prevData = [b \in Bloks |-> Fresh]
    /\ slotOf = [b \in Bloks |-> NoSlot]
    /\ returned = NoCollection
    /\ origin = NoCollection
    /\ hydLog = NoCall
    /\ autoRefreshTimer = 0
    /\ disposed = FALSE
    /\ refreshes = {}
    /\ refLog = NoRefresh
    /\ waitPromise = 0
    /\ promises = <<>>
    /\ episode = 0
    /\ waitLog = NoWait
    /\ handlers = <<>>
    /\ indexesChanged = 0
    /\ registrations = <<>>
    /\ emission = NoEmission
    /\ emitLog = NoEmit
    /\ mergeLog = NoMerge
    /\ lastUpdateContext = 0
    /\ updateContexts = <<>>
    /\ updateLog = NoUpdate
    /\ unlink = NoUnlink
    /\ actLog = NoAction
    /\ outcome = NoOutcome

\* everything but the containers' own state, for containers without autoRefresh
InitRest ==
    /\ InitBase
    /\ autoRefresh = "none"

\* the containers after create(initialData, options) with initialData 0 or NaN
Init ==
    /\ state \in [Bloks -> [data : {0, NaN}, loading : {FALSE},
                            error : {Undefined}, id : {1}]]
    /\ compare \in [Bloks -> Comparers]
    /\ initialData = [b \in Bloks |-> NoData]
    /\ initialized = [b \in Bloks |-> TRUE]
    /\ link = NoLink
    /\ InitRest

\* create(0), with the default comparer
Plain(b) ==
    /\ state[b] = [data |-> 0, loading |-> FALSE, error |-> Undefined, id |-> 1]
    /\ compare[b] = "Object.is"

\* one container of any initial data and comparer, the others left as created
InitOne == Init /\ \A b \in Bloks \ {1} : Plain(b) /\ famCompare = "Object.is"

\* counters, each created with create(0)
InitPlain == Init /\ \A b \in Bloks : Plain(b) /\ famCompare = "Object.is"

RECURSIVE CallsUpTo(_)
CallsUpTo(n) == IF n = 0 THEN 0 ELSE calls[n] + CallsUpTo(n - 1)

\* ghost: the set calls without mode made so far, on all containers
CallsMade == CallsUpTo(NumBloks)

\* ------------------------------------------------- set and async settlement

\* blok.set(nextData)
PlainSet(b) ==
    \E nd \in NextData :
        /\ CallsMade < MaxCalls
        /\ IsThenable(nd) => Len(futures) < MaxFutures
        /\ SetCall(b, nd)
        /\ UNCHANGED <<compare, settled>>
        /\ UNCHANGED batchVars
        /\ UNCHANGED extVars
        /\ UNCHANGED modeVars

Resolve(i) == \E x \in Values : Settle(i, TRUE, x, Undefined)

Reject(i) == \E e \in Reasons : Settle(i, FALSE, 0, e)

Next ==
    \/ PlainSet(1)
    \/ \E i \in DOMAIN futures : Resolve(i)
    \/ \E i \in DOMAIN futures : Reject(i)

Spec == InitOne /\ [][Next]_vars

\* ------------------------------------------------------------------ batch

\* what the counters are set to: a count, or an updater that throws
Counts == {nd \in SyncData : nd.kind # "updaterValue" /\ nd.x \in 0..1}

\* a set call inside or outside a batch, with a value or an updater
Mutate(b) ==
    \E nd \in Counts :
        /\ CallsMade < MaxMutations
        /\ SetCall(b, nd)
        /\ UNCHANGED <<compare, settled>>
        /\ UNCHANGED batchVars
        /\ UNCHANGED extVars
        /\ UNCHANGED modeVars

\* the pending set on entering batch, were it renewed by every batch
EnterSetAlways(count, pending) == <<>>

\* if (!mutationCount) batchChanges = new Set()
EnterSet(count, pending) == IF count = 0 THEN <<>> ELSE pending

\* batch(mutation), the try block up to the call of mutation
BatchTry ==
    /\ mutationCount < MaxDepth
    /\ mutationCount = 0 => batches < MaxBatches
    /\ batchChanges' = EnterSet(mutationCount, batchChanges)
    /\ mutationCount' = mutationCount + 1
    /\ IF mutationCount = 0
       THEN /\ batches' = batches + 1
            /\ entry' = changes
            /\ touched' = <<>>
            /\ muts' = [b \in Bloks |-> 0]
            /\ flushLog' = <<>>
            /\ deepest' = 1
       ELSE /\ deepest' = IF mutationCount + 1 > deepest
                          THEN mutationCount + 1 ELSE deepest
            /\ UNCHANGED <<batches, entry, touched, muts, flushLog>>
    /\ UNCHANGED <<state, compare, changes, futures, calls, lastSet,
                   lastLanded, settled>>
    /\ UNCHANGED modeVars

\* batch(mutation), up to the call of mutation
BatchEnter ==
    /\ BatchTry
    /\ UNCHANGED extVars

\* how often x occurs in seq
Count(seq, x) == Cardinality({i \in DOMAIN seq : seq[i] = x})

\* whether the batch that ends with this count flushes, were no batch to flush
FlushesNever(count) == FALSE

\* whether the batch that ends with this count flushes
Flushes(count) == count = 0

\* batch(mutation), the finally block, apart from what the listeners do
BatchFinally ==
    /\ mutationCount > 0
    /\ mutationCount' = mutationCount - 1
    /\ IF Flushes(mutationCount - 1)
       THEN /\ changes' = [b \in Bloks |-> changes[b] + Count(batchChanges, b)]
            /\ flushLog' = batchChanges
       ELSE UNCHANGED <<changes, flushLog>>
    /\ UNCHANGED <<state, compare, futures, batchChanges, calls, lastSet,
                   lastLanded, settled, batches, entry, touched, muts, deepest>>
    /\ UNCHANGED modeVars

\* batch(mutation), the finally block: mutation has returned or thrown
BatchExit ==
    /\ BatchFinally
    /\ UNCHANGED extVars

NextBatch ==
    \/ \E b \in Bloks : Mutate(b)
    \/ BatchEnter
    \/ BatchExit

SpecBatch == InitPlain /\ [][NextBatch]_vars

\* ------------------------------------------------------------------ modes

\* what the containers are set to through a mode: a count, or a promise
ModeData == {nd \in NextData : nd.kind = "promise" \/ (nd.kind = "value" /\ nd.x \in 0..1)}

\* what the counters are set to through debounce and throttle: a count
TimerData == {nd \in ModeData : nd.kind = "value"}

\* the entry of modeLog for the call being made
ModeCall(mode, b, nd, admitted) ==
    [mode |-> mode, blok |-> b, t |-> now, nd |-> nd, admitted |-> admitted,
     fut |-> IF admitted /\ IsThenable(nd) THEN Len(futures) + 1 ELSE 0,
     settled |-> settled]

\* () => blok.set(nextData), the callback set hands to the mode, when it runs
Callback(b, nd, via, call) ==
    /\ SetCall(b, nd)
    /\ realized' = Append(realized, [via |-> via, blok |-> b, t |-> now,
                                     nd |-> nd, call |-> call])

\* clearTimeout(handle), were it to leave the timer pending
ClearTimeoutNot(pending, handle) == pending

\* clearTimeout(handle)
ClearTimeout(pending, handle) == {t \in pending : t.id # handle}

\* set(nextData, debounce(Ms))
SetDebounce(b) ==
    \E nd \in TimerData :
        /\ Len(modeLog) < MaxModeCalls
        /\ timers' = ClearTimeout(timers, concurrentContext[b].debounceTimer)
                       \cup {[id |-> timerSeq + 1, due |-> now + Ms, blok |-> b,
                              nd |-> nd, call |-> Len(modeLog) + 1]}
        /\ timerSeq' = timerSeq + 1
        /\ concurrentContext' =
               [concurrentContext EXCEPT ![b].debounceTimer = timerSeq + 1]
        /\ concurrentController' = [concurrentController EXCEPT ![b] = NoController]
        /\ modeLog' = Append(modeLog, ModeCall("debounce", b, nd, TRUE))
        /\ UNCHANGED <<state, compare, changes, futures, batchChanges, touched,
                       muts, now, calls, lastSet, lastLanded, settled, realized>>
        /\ UNCHANGED batchVars
        /\ UNCHANGED extVars

\* a timer set by debounce expires and runs its callback
FireTimer ==
    \E t \in timers :
        /\ t.due <= now
        /\ mutationCount = 0
        /\ timers' = timers \ {t}
        /\ Callback(t.blok, t.nd, "debounce", t.call)
        /\ UNCHANGED <<compare, settled, concurrentContext, concurrentController,
                       timerSeq, now, modeLog>>
        /\ UNCHANGED batchVars
        /\ UNCHANGED extVars

\* throttle's test, were it to ask for more than ms since the last execution
ThrottleOpenLate(last, ms, t) == last = 0 \/ last + ms < t

\* !context.throttleLastExecution || context.throttleLastExecution + ms <= now
ThrottleOpen(last, ms, t) == last = 0 \/ last + ms <= t

\* set(nextData, throttle(Ms))
SetThrottle(b) ==
    \E nd \in TimerData :
        /\ Len(modeLog) < MaxModeCalls
        /\ concurrentController' = [concurrentController EXCEPT ![b] = NoController]
        /\ IF ThrottleOpen(concurrentContext[b].throttleLastExecution, Ms, now)
           THEN /\ concurrentContext' =
                       [concurrentContext EXCEPT ![b].throttleLastExecution = now]
                /\ modeLog' = Append(modeLog, ModeCall("throttle", b, nd, TRUE))
                /\ Callback(b, nd, "throttle", Len(modeLog) + 1)
           ELSE /\ modeLog' = Append(modeLog, ModeCall("throttle", b, nd, FALSE))
                /\ UNCHANGED <<state, changes, futures, batchChanges, touched,
                               muts, calls, lastSet, lastLanded, realized,
                               concurrentContext>>
        /\ UNCHANGED <<compare, settled, timers, timerSeq, now>>
        /\ UNCHANGED batchVars
        /\ UNCHANGED extVars

\* time passes
Tick ==
    /\ now < MaxTime
    /\ now' = now + 1
    /\ UNCHANGED <<state, compare, changes, futures, batchChanges, touched, muts,
                   concurrentContext, concurrentController, timers, timerSeq,
                   calls, lastSet, lastLanded, settled, modeLog, realized>>
    /\ UNCHANGED batchVars
    /\ UNCHANGED extVars

NextTimer ==
    \/ SetDebounce(1)
    \/ SetThrottle(1)
    \/ FireTimer
    \/ Tick

SpecTimer == InitPlain /\ [][NextTimer]_vars

\* droppable's test, were it to find the context free every time
LockedNever(context) == FALSE

\* if (context.updatingToken) return
Locked(context) == context.updatingToken # 0

\* set(nextData, droppable())
SetDroppable(b) ==
    \E nd \in ModeData :
        /\ Len(modeLog) < MaxModeCalls
        /\ IsThenable(nd) => Len(futures) < MaxFutures
        /\ IF Locked(concurrentContext[b])
           THEN /\ concurrentController' =
                       [concurrentController EXCEPT ![b] = NoController]
                /\ modeLog' = Append(modeLog, ModeCall("droppable", b, nd, FALSE))
                /\ UNCHANGED <<state, changes, futures, batchChanges, touched,
                               muts, calls, lastSet, lastLanded, realized,
                               concurrentContext>>
           ELSE LET token == Len(modeLog) + 1
                    taken == [concurrentContext[b] EXCEPT !.updatingToken = token]
                IN  /\ concurrentContext' =
                           [concurrentContext EXCEPT ![b] =
                               IF IsThenable(nd) THEN taken ELSE Done(LocalCc, taken)]
                    /\ Callback(b, nd, "droppable", token)
                    /\ concurrentController' =
                           [concurrentController EXCEPT ![b] =
                               [kind |-> "droppable", token |-> token]]
                    /\ modeLog' = Append(modeLog, ModeCall("droppable", b, nd, TRUE))
        /\ UNCHANGED <<compare, settled, timers, timerSeq, now>>
        /\ UNCHANGED batchVars
        /\ UNCHANGED extVars

NextDrop ==
    \/ SetDroppable(1)
    \/ Mutate(1)
    \/ \E i \in DOMAIN futures : Resolve(i)
    \/ \E i \in DOMAIN futures : Reject(i)

SpecDrop == InitPlain /\ [][NextDrop]_vars

\* ------------------------------------------------------- lazy containers

\* zero-argument producers: they return a value, return a promise, or throw
Producers ==
    {nd \in NextData : nd.kind \in {"updaterValue", "updaterPromise", "updaterThrow"}}

\* the state object create starts from
Unobserved == [data |-> UndefinedData, loading |-> FALSE, error |-> Undefined, id |-> 1]

\* create(producer) for container 1, create(0) for the others
InitLazy ==
    /\ state = [b \in Bloks |->
                   IF b = 1 THEN Unobserved ELSE [Unobserved EXCEPT !.data = 0]]
    /\ compare = [b \in Bloks |-> "Object.is"]
    /\ initialData \in {[b \in Bloks |-> IF b = 1 THEN p ELSE NoData] : p \in Producers}
    /\ initialized = [b \in Bloks |-> b # 1]
    /\ link = NoLink
    /\ InitRest
    /\ famCompare = "Object.is"

\* the operation being made
Op(op, b) == [n |-> lastOp.n + 1, op |-> op, blok |-> b]

\* init's test, were it missing
InitRunsAlways(flag) == TRUE

\* if (initialized) return
InitRuns(flag) == ~flag

\* init()
InitCall(b) ==
    IF InitRuns(initialized[b])
    THEN /\ initialized' = [initialized EXCEPT ![b] = TRUE]
         /\ produced' = [produced EXCEPT ![b] = @ + 1]
         /\ SetCall(b, initialData[b])
    ELSE UNCHANGED <<initialized, produced, state, futures, batchChanges, changes,
                     touched, muts, calls, lastSet, lastLanded>>

\* a read that goes through no getter with a side effect, or listen(listener)
Peek(op, b) ==
    /\ lastOp.n < MaxOps
    /\ lastOp' = Op(op, b)
    /\ UNCHANGED <<state, compare, changes, futures, batchChanges, touched, muts,
                   calls, lastSet, lastLanded, settled, initialData, initialized,
                   produced>>
    /\ UNCHANGED <<batchVars, modeVars, linkVars, famVars, moreVars>>

\* blok.loading
ReadLoading(b) == Peek("loading", b)

\* blok.error
ReadError(b) == Peek("error", b)

\* blok.listen(listener)
Listen(b) == Peek("listen", b)

\* blok.data and blok.get()
ReadData(b) ==
    \E op \in {"data", "get"} :
        /\ lastOp.n < MaxOps
        /\ IsThenable(initialData[b]) => Len(futures) < MaxFutures
        /\ InitCall(b)
        /\ lastOp' = Op(op, b)
        /\ UNCHANGED <<compare, settled, initialData>>
        /\ UNCHANGED <<batchVars, modeVars, linkVars, famVars, moreVars>>

\* blok.reset()
Reset(b) ==
    /\ lastOp.n < MaxOps
    /\ IsThenable(initialData[b]) => Len(futures) < MaxFutures
    /\ lastOp' = Op("reset", b)
    /\ IF ~initialized[b]
       THEN UNCHANGED <<initialized, produced, state, futures, batchChanges, changes,
                        touched, muts, calls, lastSet, lastLanded>>
       ELSE /\ produced' = [produced EXCEPT ![b] = @ + 1]
            /\ SetCall(b, initialData[b])
            /\ UNCHANGED initialized
    /\ UNCHANGED <<compare, settled, initialData>>
    /\ UNCHANGED <<batchVars, modeVars, linkVars, famVars, moreVars>>

\* blok.set(value), which reads no data
LazySet(b) ==
    \E nd \in TimerData :
        /\ lastOp.n < MaxOps
        /\ lastOp' = Op("set", b)
        /\ SetCall(b, nd)
        /\ UNCHANGED <<compare, settled, initialData, initialized, produced>>
        /\ UNCHANGED <<batchVars, modeVars, linkVars, famVars, moreVars>>

\* blok.set(updater), outside batch: the updater is handed blok.data, whose
\* getter calls init() before the updater runs
LazyUpdate(b) ==
    \E nd \in {d \in SyncData : d.kind = "updaterValue"} :
        LET runs == InitRuns(initialized[b])
            s == state[b]
            s1 == IF runs THEN SetState(b, s, initialData[b]) ELSE s
            s2 == SetState(b, s1, nd)
            n1 == IF Notified(s, s1) THEN 1 ELSE 0
            n2 == IF Notified(s1, s2) THEN 1 ELSE 0
            inner == IF runs THEN 1 ELSE 0
        IN  /\ lastOp.n < MaxOps
            /\ IsThenable(initialData[b]) => Len(futures) < MaxFutures
            /\ mutationCount = 0
            /\ lastOp' = Op("update", b)
            /\ initialized' = [initialized EXCEPT ![b] = TRUE]
            /\ produced' = [produced EXCEPT ![b] = @ + inner]
            /\ state' = [state EXCEPT ![b] = s2]
            /\ futures' = IF runs /\ IsThenable(initialData[b])
                          THEN Append(futures, Then(b, s, s1, LocalCc))
                          ELSE futures
            /\ changes' = [changes EXCEPT ![b] = @ + n1 + n2]
            /\ calls' = [calls EXCEPT ![b] = @ + inner + 1]
            /\ lastSet' = [lastSet EXCEPT ![b] = nd]
            /\ lastLanded' = IF n2 = 1
                             THEN [lastLanded EXCEPT ![b] = calls[b] + inner + 1]
                             ELSE IF n1 = 1
                             THEN [lastLanded EXCEPT ![b] = calls[b] + 1]
                             ELSE lastLanded
            /\ UNCHANGED <<compare, batchChanges, touched, muts, settled, initialData>>
            /\ UNCHANGED <<batchVars, modeVars, linkVars, famVars, moreVars>>

NextLazy ==
    \/ ReadLoading(1)
    \/ ReadError(1)
    \/ Listen(1)
    \/ ReadData(1)
    \/ Reset(1)
    \/ LazySet(1)
    \/ LazyUpdate(1)
    \/ \E i \in DOMAIN futures : Resolve(i)
    \/ \E i \in DOMAIN futures : Reject(i)

SpecLazy == InitLazy /\ [][NextLazy]_vars

\* ----------------------------------------------------- derived containers

\* from({A, B}, selector, options): the last container is derived from the
\* first two, which are the entries of the source map in key order
Linked == NumBloks
Sources == {1, 2}

\* options.mode of the derived container (none, or debounce(Ms)), and the
\* selectors it is made with:
\* the sum of the sources' data, or a new object that holds the sum
Modes == {"none", "debounce"}
Selectors == {"sum", "object"}

\* what source a is set to: the count 1, a promise, or an updater that throws
\* the source's own error
SourceError(a) == IF a = 1 THEN "E1" ELSE "E2"
SourceData(a) ==
    [kind : {"value"}, x : {1}, e : {Undefined}]
      \cup [kind : {"promise"}, x : {0}, e : {Undefined}]
      \cup [kind : {"updaterThrow"}, x : {0}, e : {SourceError(a)}]

\* what handleChange sets the derived container to
Thrower(e) == [kind |-> "updaterThrow", x |-> 0, e |-> e]
Forever == [kind |-> "promise", x |-> 0, e |-> Undefined]
Returning(x) == [kind |-> "updaterValue", x |-> x, e |-> Undefined]

\* sources created with create(0), the derived container not yet made
InitFrom ==
    /\ state = [b \in Bloks |->
                   IF b = Linked THEN Unobserved ELSE [Unobserved EXCEPT !.data = 0]]
    /\ compare = [b \in Bloks |-> "Object.is"]
    /\ initialData = [b \in Bloks |-> NoData]
    /\ initialized = [b \in Bloks |-> TRUE]
    /\ link \in [on : {FALSE}, mode : Modes, selector : Selectors, handled : {0}]
    /\ InitRest
    /\ famCompare = "Object.is"

\* loadingCount, were the derived container counted among its sources
LoadingCountAll(st) == Cardinality({a \in Bloks : st[a].loading})

\* loadingCount after the scan of the entries
LoadingCount(st) == Cardinality({a \in Sources : st[a].loading})

\* the entries the scan counts as errors
Errored(st) == {a \in Sources : ~st[a].loading /\ st[a].error # Undefined}

\* errorCount after the scan of the entries
ErrorCount(st) == Cardinality(Errored(st))

\* firstError, were every error found to replace it
FirstErrorLast(st) ==
    st[CHOOSE a \in Errored(st) : \A c \in Errored(st) : c <= a].error

\* firstError after the scan of the entries
FirstError(st) ==
    st[CHOOSE a \in Errored(st) : \A c \in Errored(st) : a <= c].error

RECURSIVE SumTo(_, _)
SumTo(st, n) == IF n = 0 THEN 0 ELSE st[n].data + SumTo(st, n - 1)

\* the selector applied to the sources' data: a number, or a new object
Select(st, sel, ref) ==
    LET sum == SumTo(st, Cardinality(Sources)) % (MaxValue + 1)
    IN  IF sel = "sum" THEN sum ELSE Obj(ref, sum)

\* shallow, were it to compare by identity only
ShallowIdentity(a, b) == StrictEquals(a, b)

\* shallow(a, b), on numbers, undefined and objects of one property
Shallow(a, b) ==
    \/ StrictEquals(a, b)
    \/ IsObj(a) /\ IsObj(b) /\ Content(a) = Content(b)

\* what the updater handleChange passes to set returns
Selected(next, prev) == IF Shallow(next, prev) THEN prev ELSE next

\* blok.set(updater) without mode on the derived container: the selector runs
Proceed(st) ==
    LET s == st[Linked]
        next == Select(st, link.selector, selLog.n + 1)
    IN  [kind |-> "select", raw |-> next,
         t |-> SetState(Linked, s, Returning(Selected(next, s.data)))]

\* handleChange(): what it does to the derived container
Reaction(st) ==
    LET s == st[Linked]
        idle == [kind |-> "none", raw |-> 0, t |-> s]
    IN  IF ErrorCount(st) = Cardinality(Sources)
        THEN [idle EXCEPT !.kind = "error",
                          !.t = SetState(Linked, s, Thrower(FirstError(st)))]
        ELSE IF LoadingCount(st) > 0
        THEN [idle EXCEPT !.kind = "loading", !.t = SetState(Linked, s, Forever)]
        ELSE IF link.mode = "debounce"
        THEN [idle EXCEPT !.kind = "timer"]
        ELSE IF /\ link.mode = "throttle"
                /\ ~ThrottleOpen(concurrentContext[Linked].throttleLastExecution,
                                 Ms, now)
        THEN [idle EXCEPT !.kind = "dropped"]
        ELSE Proceed(st)

\* the entry of selLog for a run of the selector
Selection(st, r, via) ==
    [args |-> [a \in Sources |-> st[a].data], prev |-> st[Linked].data,
     raw |-> r.raw, before |-> st[Linked], after |-> r.t, via |-> via]

\* the timer debounce sets for the derived container's update
LinkTimer == [id |-> timerSeq + 1, due |-> now + Ms, blok |-> Linked,
              nd |-> NoData, call |-> 0]

\* the sources are in state st, note[b] listeners' calls are due to the step
\* itself, and handleChange runs if called
React(st, note, on, called) ==
    LET s == st[Linked]
        r == IF called THEN Reaction(st) ELSE [kind |-> "none", raw |-> 0, t |-> s]
        context == concurrentContext[Linked]
    IN  /\ state' = [st EXCEPT ![Linked] = r.t]
        /\ changes' = [b \in Bloks |->
               changes[b] + note[b]
                 + (IF b = Linked /\ Notified(s, r.t) THEN 1 ELSE 0)]
        /\ selLog' = IF r.kind = "select"
                     THEN [n |-> selLog.n + 1, last |-> Selection(st, r, "change")]
                     ELSE selLog
        /\ link' = [link EXCEPT !.on = on,
                                !.handled = @ + (IF called THEN 1 ELSE 0)]
        /\ timers' = IF r.kind = "timer"
                     THEN ClearTimeout(timers, context.debounceTimer) \cup {LinkTimer}
                     ELSE timers
        /\ timerSeq' = IF r.kind = "timer" THEN timerSeq + 1 ELSE timerSeq
        /\ concurrentContext' =
               IF r.kind = "timer"
               THEN [concurrentContext EXCEPT ![Linked].debounceTimer = timerSeq + 1]
               ELSE IF r.kind = "select" /\ link.mode = "throttle"
               THEN [concurrentContext EXCEPT ![Linked].throttleLastExecution = now]
               ELSE concurrentContext

\* nobody's listeners are called
NoNote == [b \in Bloks |-> 0]

\* from(sources, selector, options): create(undefined), then handleChange()
LinkFrom ==
    /\ ~link.on
    /\ React(state, NoNote, TRUE, TRUE)
    /\ UNCHANGED <<compare, futures, batchChanges, touched, muts, calls, lastSet,
                   lastLanded, settled, concurrentController, now, modeLog,
                   realized>>
    /\ UNCHANGED <<batchVars, lazyVars, famVars, moreVars>>

\* sources[a].set(nextData), with the listener from() has subscribed
SourceSet(a) ==
    \E nd \in SourceData(a) :
        LET s == state[a]
            t == SetState(a, s, nd)
            note == [b \in Bloks |-> IF b = a /\ Notified(s, t) THEN 1 ELSE 0]
        IN  /\ lastOp.n < MaxSourceOps
            /\ IsThenable(nd) => Len(futures) < MaxFutures
            /\ mutationCount = 0
            /\ lastOp' = Op("set", a)
            /\ React([state EXCEPT ![a] = t], note, link.on,
                     link.on /\ Notified(s, t))
            /\ futures' = IF IsThenable(nd)
                          THEN Append(futures, Then(a, s, t, LocalCc))
                          ELSE futures
            /\ calls' = [calls EXCEPT ![a] = @ + 1]
            /\ lastSet' = [lastSet EXCEPT ![a] = nd]
            /\ lastLanded' = IF Notified(s, t)
                             THEN [lastLanded EXCEPT ![a] = calls[a] + 1]
                             ELSE lastLanded
            /\ UNCHANGED <<compare, batchChanges, touched, muts, settled,
                           concurrentController, now, modeLog, realized,
                           initialData, initialized, produced>>
            /\ UNCHANGED <<batchVars, famVars, moreVars>>

\* a promise a source was set to settles, with the listener from() has subscribed
SourceSettle(i, ok, x, e) ==
    LET f == futures[i]
        a == f.blok
        s == state[a]
        t == SettleState(f, s, ok, x, e)
        note == [b \in Bloks |-> IF b = a /\ Notified(s, t) THEN 1 ELSE 0]
    IN  /\ f.status = "pending"
        /\ mutationCount = 0
        /\ React([state EXCEPT ![a] = t], note, link.on, link.on /\ Notified(s, t))
        /\ futures' = [futures EXCEPT ![i] =
               [f EXCEPT !.status = IF ok THEN "resolved" ELSE "rejected",
                         !.x = IF ok THEN x ELSE 0,
                         !.e = IF ok THEN Undefined ELSE e,
                         !.order = settled + 1,
                         !.after = t.id,
                         !.landed = Notified(s, t)]]
        /\ settled' = settled + 1
        /\ lastLanded' = IF Notified(s, t)
                         THEN [lastLanded EXCEPT ![a] = f.issue]
                         ELSE lastLanded
        /\ UNCHANGED <<compare, batchChanges, touched, muts, calls, lastSet,
                       concurrentController, now, modeLog, realized>>
        /\ UNCHANGED <<batchVars, lazyVars, famVars, moreVars>>

SourceResolve(i) == SourceSettle(i, TRUE, 1, Undefined)

SourceReject(i) == SourceSettle(i, FALSE, 0, SourceError(futures[i].blok))

\* the timer debounce set for the derived container expires: blok.set(updater)
FireLinked ==
    \E timer \in timers :
        LET r == Proceed(state)
        IN  /\ timer.blok = Linked
            /\ timer.due <= now
            /\ mutationCount = 0
            /\ timers' = timers \ {timer}
            /\ state' = [state EXCEPT ![Linked] = r.t]
            /\ changes' = [changes EXCEPT ![Linked] =
                   @ + (IF Notified(state[Linked], r.t) THEN 1 ELSE 0)]
            /\ selLog' = [n |-> selLog.n + 1, last |-> Selection(state, r, "timer")]
            /\ UNCHANGED <<compare, futures, batchChanges, touched, muts, calls,
                           lastSet, lastLanded, settled, concurrentContext,
                           concurrentController, timerSeq, now, modeLog, realized,
                           link>>
            /\ UNCHANGED <<batchVars, lazyVars, famVars, moreVars>>

\* time passes until the next timer is due
Elapse ==
    /\ \E timer \in timers :
           /\ \A other \in timers : timer.due <= other.due
           /\ timer.due > now
           /\ now' = timer.due
    /\ UNCHANGED <<state, compare, changes, futures, batchChanges, touched, muts,
                   concurrentContext, concurrentController, timers, timerSeq,
                   calls, lastSet, lastLanded, settled, modeLog, realized>>
    /\ UNCHANGED <<batchVars, extVars>>

NextFrom ==
    \/ LinkFrom
    \/ \E a \in Sources : SourceSet(a)
    \/ \E i \in DOMAIN futures : SourceResolve(i)
    \/ \E i \in DOMAIN futures : SourceReject(i)
    \/ FireLinked
    \/ Elapse

SpecFrom == InitFrom /\ [][NextFrom]_vars

\* ----------------------------------------------------------------- family

\* the keys get is called with: a number, two objects of the same content and
\* an object of another content
Keys == {1, Obj(1, 0), Obj(2, 0), Obj(1, 1)}

\* family(factory, options), no member made yet
InitFamily == Init /\ \A b \in Bloks : Plain(b)

\* compare(a, b), with compare = options?.compare ?? Object.is
KeyCompare(a, b) == IF famCompare = "Object.is" THEN ObjectIs(a, b) ELSE Shallow(a, b)

\* the equality of Map's keys
SameValueZero(a, b) == a = b

\* the places of m that hold a key the test finds equal to key
Found(m, key) ==
    IF IsObj(key)
    THEN {i \in DOMAIN m : KeyCompare(m[i].key, key)}
    ELSE {i \in DOMAIN m : SameValueZero(m[i].key, key)}

\* findMember(key): the place of the member in the map, 0 if there is none
FindMember(m, key) ==
    IF Found(m, key) = {}
    THEN 0
    ELSE CHOOSE i \in Found(m, key) : \A j \in Found(m, key) : i <= j

\* map.set(key, member)
MapSet(m, key, member) ==
    IF \E i \in DOMAIN m : SameValueZero(m[i].key, key)
    THEN [i \in DOMAIN m |->
             IF SameValueZero(m[i].key, key) THEN [m[i] EXCEPT !.member = member]
             ELSE m[i]]
    ELSE Append(m, [key |-> key, member |-> member])

\* map.delete(key), were it to empty the map
MapDeleteClears(m, key) == <<>>

\* map.delete(key)
MapDelete(m, key) == SelectSeq(m, LAMBDA held : ~SameValueZero(held.key, key))

\* family.get(key)
Get(key) ==
    LET at == FindMember(map, key)
        made == Len(memberKey) + 1
    IN  /\ Len(famLog) < MaxFamilyOps
        /\ IF at = 0
           THEN /\ memberKey' = Append(memberKey, key)
                /\ map' = MapSet(map, key, made)
                /\ famLog' = Append(famLog, [op |-> "get", key |-> key,
                                             member |-> made, made |-> TRUE,
                                             live |-> FALSE])
           ELSE /\ famLog' = Append(famLog, [op |-> "get", key |-> key,
                                             member |-> map[at].member,
                                             made |-> FALSE, live |-> TRUE])
                /\ UNCHANGED <<map, memberKey>>
        /\ UNCHANGED <<state, compare, changes, futures, batchChanges, touched,
                       muts, calls, lastSet, lastLanded, settled, famCompare>>
        /\ UNCHANGED <<batchVars, modeVars, lazyVars, linkVars, moreVars>>

\* member.dispose(), of a member get has returned at some time
Dispose(member) ==
    /\ Len(famLog) < MaxFamilyOps
    /\ map' = MapDelete(map, memberKey[member])
    /\ famLog' = Append(famLog, [op |-> "dispose", key |-> memberKey[member],
                                 member |-> member, made |-> FALSE,
                                 live |-> \E i \in DOMAIN map :
                                             map[i].member = member])
    /\ UNCHANGED <<state, compare, changes, futures, batchChanges, touched, muts,
                   calls, lastSet, lastLanded, settled, memberKey, famCompare>>
    /\ UNCHANGED <<batchVars, modeVars, lazyVars, linkVars, moreVars>>

\* family.clear()
Clear ==
    /\ Len(famLog) < MaxFamilyOps
    /\ map' = <<>>
    /\ famLog' = Append(famLog, [op |-> "clear", key |-> 0, member |-> 0,
                                 made |-> FALSE, live |-> FALSE])
    /\ UNCHANGED <<state, compare, changes, futures, batchChanges, touched, muts,
                   calls, lastSet, lastLanded, settled, memberKey, famCompare>>
    /\ UNCHANGED <<batchVars, modeVars, lazyVars, linkVars, moreVars>>

NextFamily ==
    \/ \E key \in Keys : Get(key)
    \/ \E member \in DOMAIN memberKey : Dispose(member)
    \/ Clear

SpecFamily == InitFamily /\ [][NextFamily]_vars

\* ---------------------------------------------------------------- hydrate

\* a container before create has filled its state: data undefined
Blank == [data |-> UndefinedData, loading |-> FALSE, error |-> Undefined, id |-> 1]

\* hydrate(undefined), and the containers still to be created
InitHydrate ==
    /\ state = [b \in Bloks |-> Blank]
    /\ compare = [b \in Bloks |-> "Object.is"]
    /\ initialData = [b \in Bloks |-> NoData]
    /\ initialized = [b \in Bloks |-> TRUE]
    /\ link = NoLink
    /\ InitRest
    /\ famCompare = "Object.is"

\* hydratedData.get(key): the place of the key's item, 0 if there is none
ItemAt(hd, key) ==
    IF \E i \in DOMAIN hd : hd[i].key = key
    THEN CHOOSE i \in DOMAIN hd : hd[i].key = key
    ELSE 0

\* a new item {}, with blok and data as given
Item(key, data, b) ==
    [key |-> key, data |-> data, blok |-> b, fam |-> FALSE, members |-> <<>>]

\* a new member {}, with blok and data as given
Member(key, data, b) == [key |-> key, data |-> data, blok |-> b]

\* hydrate(collection): the Map built from the collection's entries
HydrateFrom(entries) ==
    [i \in DOMAIN entries |->
        IF entries[i].fam
        THEN [key |-> entries[i].key, data |-> UndefinedData, blok |-> NoBlok,
              fam |-> TRUE,
              members |-> [j \in DOMAIN entries[i].members |->
                              Member(entries[i].members[j].key,
                                     entries[i].members[j].data, NoBlok)]]
        ELSE Item(entries[i].key, entries[i].data, NoBlok)]

\* dehydrate: the members of a family that have a container, with its data
MemberEntries(ms, st) ==
    LET live == SelectSeq(ms, LAMBDA m : m.blok # NoBlok)
    IN  [j \in DOMAIN live |-> [key |-> live[j].key, data |-> st[live[j].blok].data]]

\* dehydrate: the collection computed from the slots and their containers
Collect(hd, st) ==
    LET kept == SelectSeq(hd, LAMBDA it : it.fam \/ it.blok # NoBlok)
    IN  [i \in DOMAIN kept |->
            IF kept[i].fam
            THEN [key |-> kept[i].key, fam |-> TRUE, data |-> UndefinedData,
                  members |-> MemberEntries(kept[i].members, st)]
            ELSE [key |-> kept[i].key, fam |-> FALSE,
                  data |-> st[kept[i].blok].data, members |-> <<>>]]

\* the place of the member in a family's members, 0 if there is none
MemberAt(ms, member) ==
    IF \E j \in DOMAIN ms : ms[j].key = member
    THEN CHOOSE j \in DOMAIN ms : ms[j].key = member
    ELSE 0

\* the function getHydrateOf returns, called with container b: the Map after
\* the call, and the pair [hydrated, item.data] it returns
GetHydrateOf(hd, key, member, b) ==
    LET at == ItemAt(hd, key)
    IN  IF at = 0
        THEN [map |-> Append(hd,
                        IF member # NoMember
                        THEN [key |-> key, data |-> UndefinedData, blok |-> NoBlok,
                              fam |-> TRUE,
                              members |-> <<Member(member, UndefinedData, b)>>]
                        ELSE Item(key, UndefinedData, b)),
              hydrated |-> FALSE, data |-> UndefinedData]
        ELSE IF member = NoMember
        THEN [map |-> [hd EXCEPT ![at].blok = b],
              hydrated |-> TRUE, data |-> hd[at].data]
        ELSE IF ~hd[at].fam
        THEN [map |-> hd, hydrated |-> FALSE, data |-> UndefinedData]
        ELSE LET mat == MemberAt(hd[at].members, member)
             IN  IF mat = 0
                 THEN [map |-> [hd EXCEPT ![at].members =
                                   Append(@, Member(member, UndefinedData, b))],
                       hydrated |-> FALSE, data |-> UndefinedData]
                 ELSE [map |-> [hd EXCEPT ![at].members[mat].blok = b],
                       hydrated |-> TRUE, data |-> hd[at].members[mat].data]

\* setDataOf, were it to write the attached container's slot only
SetDataOfLive(hd, key, member, data) ==
    IF ItemAt(hd, key) = 0 THEN hd
    ELSE [hd EXCEPT ![ItemAt(hd, key)].data = data]

\* setDataOf(blokKey, memberKey, hasMemberKey, data): the Map after the call
SetDataOf(hd, key, member, data) ==
    LET hd1 == IF ItemAt(hd, key) = 0
               THEN Append(hd, Item(key, UndefinedData, NoBlok))
               ELSE hd
        at == ItemAt(hd1, key)
        ms == hd1[at].members
        mat == MemberAt(ms, member)
    IN  IF member = NoMember
        THEN [hd1 EXCEPT ![at].data = data]
        ELSE [hd1 EXCEPT ![at].fam = TRUE,
                         ![at].members =
                             IF mat = 0
                             THEN Append(ms, Member(member, data, NoBlok))
                             ELSE [ms EXCEPT ![mat].data = data]]

\* the change listener of b ran and went past its first return
Heard(b) ==
    /\ changes'[b] # changes[b]
    /\ slotOf'[b] # NoSlot
    /\ ~state'[b].loading
    /\ state'[b].error = Undefined

\* the change listeners getHydrateOf registered, run by this step's emissions
HydListen(cache) ==
    /\ prevData' = [b \in Bloks |->
                       IF Heard(b) THEN state'[b].data ELSE prevData[b]]
    /\ lastDehyratedData' =
           IF \E b \in Bloks : Heard(b) /\ ~StrictEquals(prevData[b], state'[b].data)
           THEN NoCollection
           ELSE cache

\* the record of a call on the store
Call(op) == [hydLog EXCEPT !.n = @ + 1, !.op = op]

\* the record of a call that took a container from state s to state t: whether
\* its state, and its data, have changed since the last dehydrate
Noted(call, s, t) ==
    [call EXCEPT !.stateChanged = @ \/ Notified(s, t),
                 !.dataChanged = @ \/ ~StrictEquals(s.data, t.data)]

\* create(x, { hydrate: hydration.of(key) }), or hydration.ofMember(key, member)
Attach(b, key, member, x) ==
    LET got == GetHydrateOf(hydratedData, key, member, b)
        nd == [kind |-> "value", x |-> x, e |-> Undefined]
    IN  /\ hydLog.n < MaxHydOps
        /\ slotOf[b] = NoSlot
        /\ \A a \in Bloks : a < b => slotOf[a] # NoSlot
        /\ hydratedData' = got.map
        /\ slotOf' = [slotOf EXCEPT ![b] = [key |-> key, member |-> member]]
        /\ hydLog' = IF got.hydrated
                      THEN Call("attach")
                      ELSE Noted(Call("attach"), state[b], SetState(b, state[b], nd))
        /\ IF got.hydrated
           THEN /\ state' = [state EXCEPT ![b].data = got.data]
                /\ UNCHANGED <<futures, batchChanges, changes, touched, muts,
                               calls, lastSet, lastLanded>>
           ELSE /\ state' = [state EXCEPT ![b] = SetState(b, @, nd)]
                /\ Notify(b, Notified(state[b], SetState(b, state[b], nd)))
                /\ UNCHANGED <<futures, calls, lastSet, lastLanded>>
        /\ UNCHANGED <<compare, settled, returned, origin>>
        /\ UNCHANGED <<batchVars, modeVars, lazyVars, linkVars, famVars, notHyd>>
        /\ HydListen(lastDehyratedData)

\* blok.set(nextData) on a container of the store
HydSet(b) ==
    \E nd \in Counts :
        /\ hydLog.n < MaxHydOps
        /\ slotOf[b] # NoSlot
        /\ state' = [state EXCEPT ![b] = SetState(b, @, nd)]
        /\ Notify(b, Notified(state[b], SetState(b, state[b], nd)))
        /\ UNCHANGED <<futures, calls, lastSet, lastLanded>>
        /\ hydLog' = Noted(Call("set"), state[b], SetState(b, state[b], nd))
        /\ UNCHANGED <<compare, settled, hydratedData, slotOf, returned, origin>>
        /\ UNCHANGED <<batchVars, modeVars, lazyVars, linkVars, famVars, notHyd>>
        /\ HydListen(lastDehyratedData)

\* batch(mutation), up to the call of mutation, around calls on the store
HydBatchEnter ==
    /\ hydLog.n < MaxHydOps
    /\ mutationCount = 0
    /\ batches < MaxHydBatches
    /\ BatchEnter

\* batch(mutation), the finally block, with the store's listeners
HydBatchExit ==
    /\ hydLog.n < MaxHydOps
    /\ BatchFinally
    /\ hydLog' = Call("batch")
    /\ UNCHANGED <<hydratedData, slotOf, returned, origin>>
    /\ UNCHANGED <<lazyVars, linkVars, famVars, notHyd>>
    /\ HydListen(lastDehyratedData)

\* hydration.dehydrate()
Dehydrate ==
    LET computed == [id |-> hydLog.n + 1,
                     entries |-> Collect(hydratedData, state)]
        result == IF lastDehyratedData # NoCollection
                  THEN lastDehyratedData
                  ELSE computed
    IN  /\ hydLog.n < MaxHydOps
        /\ lastDehyratedData' = result
        /\ returned' = result
        /\ hydLog' = [Call("dehydrate") EXCEPT !.stateChanged = FALSE,
                                                !.dataChanged = FALSE]
        /\ UNCHANGED <<state, compare, changes, futures, batchChanges, touched,
                       muts, calls, lastSet, lastLanded, settled>>
        /\ UNCHANGED <<hydratedData, prevData, slotOf, origin>>
        /\ UNCHANGED <<batchVars, modeVars, lazyVars, linkVars, famVars, notHyd>>

\* hydration.dataOf(key, data), or hydration.dataOfMember(key, member, data)
DataOf(key, member, data) ==
    /\ hydLog.n < MaxHydOps
    /\ hydratedData' = SetDataOf(hydratedData, key, member, data)
    /\ hydLog' = [Call("dataOf") EXCEPT
                      !.written[[key |-> key, member |-> member]] = data]
    /\ UNCHANGED <<state, compare, changes, futures, batchChanges, touched,
                   muts, calls, lastSet, lastLanded, settled>>
    /\ UNCHANGED <<lastDehyratedData, prevData, slotOf, returned, origin>>
    /\ UNCHANGED <<batchVars, modeVars, lazyVars, linkVars, famVars, notHyd>>

\* hydrate(collection), with a collection dehydrate has returned: a new
\* store, whose containers are still to be created
Rehydrate ==
    /\ returned # NoCollection
    /\ origin = NoCollection
    /\ mutationCount = 0
    /\ hydratedData' = HydrateFrom(returned.entries)
    /\ lastDehyratedData' = NoCollection
    /\ origin' = returned
    /\ returned' = NoCollection
    /\ prevData' = [b \in Bloks |-> Fresh]
    /\ slotOf' = [b \in Bloks |-> NoSlot]
    /\ state' = [b \in Bloks |-> Blank]
    /\ changes' = [b \in Bloks |-> 0]
    /\ hydLog' = [NoCall EXCEPT !.n = hydLog.n, !.op = "hydrate"]
    /\ UNCHANGED <<compare, futures, batchChanges, touched, muts, settled, calls,
                   lastSet, lastLanded>>
    /\ UNCHANGED <<batchVars, modeVars, lazyVars, linkVars, famVars, notHyd>>

NextHydrate ==
    \/ \E b \in Bloks : \E slot \in HydSlots :
           Attach(b, slot.key, slot.member, HydInitial)
    \/ \E b \in Bloks : HydSet(b)
    \/ HydBatchEnter
    \/ HydBatchExit
    \/ Dehydrate
    \/ \E slot \in HydSlots : \E data \in HydValues :
           DataOf(slot.key, slot.member, data)
    \/ Rehydrate

SpecHydrate == InitHydrate /\ [][NextHydrate]_vars

\* ------------------------------------------------------------ autoRefresh

\* options.autoRefresh: a number of milliseconds, or a scheduler function
RefreshOptions == {"interval", "scheduler"}

\* create(producer, { autoRefresh }) for container 1, create(0) for the others
InitRefresh ==
    /\ state = [b \in Bloks |->
                   IF b = 1 THEN Unobserved ELSE [Unobserved EXCEPT !.data = 0]]
    /\ compare = [b \in Bloks |-> "Object.is"]
    /\ initialData \in {[b \in Bloks |-> IF b = 1 THEN p ELSE NoData] :
                           p \in {q \in Producers : ~IsThenable(q)}}
    /\ initialized = [b \in Bloks |-> b # 1]
    /\ link = NoLink
    /\ InitBase
    /\ autoRefresh \in RefreshOptions
    /\ famCompare = "Object.is"

\* the record of a call on container 1
Refresh(op) == [refLog EXCEPT !.n = @ + 1, !.op = op, !.late = FALSE]

\* clearTimeout(handle)
Cleared(held, handle) == {r \in held : r.handle # handle}

\* next(): refreshFn is handed the refresh callback; a number as autoRefresh
\* clears the last timeout and sets a new one, a scheduler keeps the callback
Scheduled ==
    LET made == [handle |-> refLog.n + 1, late |-> disposed]
    IN  IF autoRefresh = "interval"
        THEN /\ refreshes' = Cleared(refreshes, autoRefreshTimer) \cup {made}
             /\ autoRefreshTimer' = made.handle
        ELSE /\ refreshes' = refreshes \cup {made}
             /\ UNCHANGED autoRefreshTimer

\* blok.set(initialData), by init or by the refresh callback
Produce ==
    /\ produced' = [produced EXCEPT ![1] = @ + 1]
    /\ SetCall(1, initialData[1])

\* init(), with options.autoRefresh
RefreshInit ==
    IF InitRuns(initialized[1])
    THEN /\ initialized' = [initialized EXCEPT ![1] = TRUE]
         /\ Produce
         /\ Scheduled
    ELSE UNCHANGED <<initialized, produced, state, futures, batchChanges, changes,
                     touched, muts, calls, lastSet, lastLanded, refreshes,
                     autoRefreshTimer>>

\* blok.data
RefreshRead ==
    /\ refLog.n < MaxRefreshOps
    /\ refLog' = Refresh("data")
    /\ RefreshInit
    /\ UNCHANGED <<compare, settled, initialData, lastOp, autoRefresh, disposed>>
    /\ UNCHANGED <<batchVars, modeVars, linkVars, famVars, notRef>>

\* blok.reset()
RefreshReset ==
    /\ refLog.n < MaxRefreshOps
    /\ refLog' = Refresh("reset")
    /\ IF ~initialized[1]
       THEN UNCHANGED <<initialized, produced, state, futures, batchChanges, changes,
                        touched, muts, calls, lastSet, lastLanded, refreshes,
                        autoRefreshTimer>>
       ELSE /\ Produce
            /\ Scheduled
            /\ UNCHANGED initialized
    /\ UNCHANGED <<compare, settled, initialData, lastOp, autoRefresh, disposed>>
    /\ UNCHANGED <<batchVars, modeVars, linkVars, famVars, notRef>>

\* blok.set(value)
RefreshSet ==
    \E nd \in TimerData :
        /\ refLog.n < MaxRefreshOps
        /\ refLog' = Refresh("set")
        /\ SetCall(1, nd)
        /\ UNCHANGED <<compare, settled, initialData, initialized, produced, lastOp,
                       autoRefresh, autoRefreshTimer, disposed, refreshes>>
        /\ UNCHANGED <<batchVars, modeVars, linkVars, famVars, notRef>>

\* blok.dispose()
Disposal ==
    /\ refLog.n < MaxRefreshOps
    /\ refLog' = [Refresh("dispose") EXCEPT !.disposes = @ + 1]
    /\ disposed' = TRUE
    /\ refreshes' = IF ~disposed /\ autoRefreshTimer # 0
                    THEN Cleared(refreshes, autoRefreshTimer)
                    ELSE refreshes
    /\ UNCHANGED <<state, compare, changes, futures, batchChanges, touched, muts,
                   calls, lastSet, lastLanded, settled, initialData, initialized,
                   produced, lastOp, autoRefresh, autoRefreshTimer>>
    /\ UNCHANGED <<batchVars, modeVars, linkVars, famVars, notRef>>

\* the refresh callback's test, were it missing
IsDisposedNever(flag) == FALSE

\* if (disposed) return
IsDisposed(flag) == flag

\* the refresh callback, run by the timeout or by the scheduler
Refreshed(r) ==
    /\ refLog.n < MaxRefreshOps
    /\ refLog' = [Refresh("refresh") EXCEPT !.late = r.late]
    /\ IF IsDisposed(disposed)
       THEN /\ refreshes' = refreshes \ {r}
            /\ UNCHANGED <<produced, state, futures, batchChanges, changes, touched,
                           muts, calls, lastSet, lastLanded, autoRefreshTimer>>
       ELSE /\ Produce
            /\ LET made == [handle |-> refLog.n + 1, late |-> disposed]
               IN  IF autoRefresh = "interval"
                   THEN /\ refreshes' = Cleared(refreshes \ {r}, autoRefreshTimer)
                                           \cup {made}
                        /\ autoRefreshTimer' = made.handle
                   ELSE /\ refreshes' = (refreshes \ {r}) \cup {made}
                        /\ UNCHANGED autoRefreshTimer
    /\ UNCHANGED <<compare, settled, initialData, initialized, lastOp, autoRefresh,
                   disposed>>
    /\ UNCHANGED <<batchVars, modeVars, linkVars, famVars, notRef>>

NextRefresh ==
    \/ RefreshRead
    \/ RefreshReset
    \/ RefreshSet
    \/ Disposal
    \/ \E r \in refreshes : Refreshed(r)

SpecRefresh == InitRefresh /\ [][NextRefresh]_vars

\* ------------------------------------------------------------------- wait

\* what the waited container is set to: a value, a promise, a throwing updater
WaitData ==
    {nd \in NextData : \/ nd.kind = "value" /\ nd.x = 1
                       \/ nd.kind = "promise"
                       \/ nd.kind = "updaterThrow" /\ nd.e = "E1"}

\* the record of a call on container 1
Waited(op, result) == [n |-> waitLog.n + 1, op |-> op, result |-> result]

\* the promise wait() makes while the container is loading
PendingPromise == [status |-> "pending", x |-> UndefinedData, e |-> Undefined,
                   episode |-> episode]

\* Promise.reject(state.error)
RejectedPromise(s) == [status |-> "rejected", x |-> UndefinedData, e |-> s.error,
                       episode |-> 0]

\* the listener of wait(), run with the state the emission finds
WaitListener(p, s) ==
    IF s.error # Undefined
    THEN [p EXCEPT !.status = "rejected", !.e = s.error]
    ELSE [p EXCEPT !.status = "resolved", !.x = s.data]

\* the listeners wait() has subscribed, run by this step's emission
WaitListen ==
    IF changes'[1] # changes[1] /\ waitPromise # 0
    THEN /\ promises' = [promises EXCEPT ![waitPromise] = WaitListener(@, state'[1])]
         /\ waitPromise' = 0
    ELSE UNCHANGED <<promises, waitPromise>>

\* ghost: a loading episode starts when the container goes from settled to loading
Episode == IF ~state[1].loading /\ state'[1].loading THEN episode + 1 ELSE episode

\* blok.set(nextData) on the waited container
WaitSet ==
    \E nd \in WaitData :
        /\ waitLog.n < MaxWaitOps
        /\ IsThenable(nd) => Len(futures) < MaxFutures
        /\ SetCall(1, nd)
        /\ waitLog' = Waited("set", 0)
        /\ episode' = Episode
        /\ UNCHANGED <<compare, settled>>
        /\ UNCHANGED <<batchVars, modeVars, lazyVars, linkVars, famVars, notWait>>
        /\ WaitListen

\* a promise the waited container was set to resolves or rejects
WaitSettle(i) ==
    \E ok \in BOOLEAN :
        /\ waitLog.n < MaxWaitOps
        /\ ThenCallback(i, ok, IF ok THEN 2 ELSE 0, IF ok THEN Undefined ELSE "E2")
        /\ waitLog' = Waited("settle", 0)
        /\ episode' = Episode
        /\ UNCHANGED <<lazyVars, linkVars, famVars, notWait>>
        /\ WaitListen

\* batch(mutation), up to the call of mutation, around calls on the container
WaitBatchEnter ==
    /\ waitLog.n < MaxWaitOps
    /\ mutationCount = 0
    /\ batches < MaxWaitBatches
    /\ BatchEnter

\* batch(mutation), the finally block, with the listeners of wait()
WaitBatchExit ==
    /\ waitLog.n < MaxWaitOps
    /\ BatchFinally
    /\ waitLog' = Waited("batch", 0)
    /\ UNCHANGED episode
    /\ UNCHANGED <<lazyVars, linkVars, famVars, notWait>>
    /\ WaitListen

\* if (waitPromise) return waitPromise
WaitPromise(cached) == cached

\* blok.wait()
Wait ==
    LET made == Len(promises) + 1
        cached == WaitPromise(waitPromise)
    IN  /\ waitLog.n < MaxWaitOps
        /\ IF cached # 0
           THEN /\ waitLog' = Waited("wait", cached)
                /\ UNCHANGED <<promises, waitPromise>>
           ELSE IF state[1].loading
           THEN /\ promises' = Append(promises, PendingPromise)
                /\ waitPromise' = made
                /\ waitLog' = Waited("wait", made)
           ELSE /\ promises' = Append(promises, RejectedPromise(state[1]))
                /\ waitLog' = Waited("wait", made)
                /\ UNCHANGED waitPromise
        /\ UNCHANGED <<state, compare, changes, futures, batchChanges, touched,
                       muts, calls, lastSet, lastLanded, settled, episode>>
        /\ UNCHANGED <<batchVars, modeVars, lazyVars, linkVars, famVars, notWait>>

NextWait ==
    \/ WaitSet
    \/ \E i \in DOMAIN futures : WaitSettle(i)
    \/ WaitBatchEnter
    \/ WaitBatchExit
    \/ Wait

SpecWait == InitPlain /\ [][NextWait]_vars

\* ---------------------------------------------------------------- emitter

\* the functions that are added as handlers
Handlers == {"f", "g", "h"}

\* handlers.indexOf(handler), counted from 1; 0 if the handler is not found
IndexOf(hs, handler) ==
    IF \E i \in DOMAIN hs : hs[i].handler = handler
    THEN CHOOSE i \in DOMAIN hs :
             /\ hs[i].handler = handler
             /\ \A j \in DOMAIN hs : hs[j].handler = handler => i <= j
    ELSE 0

\* handlers.splice(index, 1), index counted from 1
Splice(hs, index) ==
    [i \in 1..(Len(hs) - (IF index \in DOMAIN hs THEN 1 ELSE 0)) |->
        IF i < index THEN hs[i] ELSE hs[i + 1]]

\* ghost: the registrations that hold, in the order they were made
Subscribed == SelectSeq([r \in DOMAIN registrations |->
                            [handler |-> registrations[r].handler,
                             active |-> registrations[r].subscribed]],
                        LAMBDA reg : reg.active)

\* ghost: the handlers of a sequence of registrations or array entries
HandlersOf(seq) == [i \in DOMAIN seq |-> seq[i].handler]

\* the record of a call on the emitter
Emitted == [emitLog EXCEPT !.n = @ + 1]

\* add(handler)
Add(handler) ==
    /\ emitLog.n < MaxEmitterOps
    /\ Len(registrations) < MaxListeners
    /\ handlers' = Append(handlers, [handler |-> handler,
                                     registration |-> Len(registrations) + 1])
    /\ registrations' = Append(registrations,
                               [handler |-> handler,
                                initialIndex |-> Len(handlers) + 1,
                                initialToken |-> indexesChanged,
                                subscribed |-> TRUE])
    /\ emitLog' = Emitted
    /\ UNCHANGED <<indexesChanged, emission>>

\* the index the unsubscribe function removes at, counted from 1
RemovedAt(reg, hs, token) ==
    IF reg.initialToken = token
    THEN reg.initialIndex
    ELSE IndexOf(hs, reg.handler)

\* the function add returned for registration r, called
Unsubscribe(r) ==
    LET index == RemovedAt(registrations[r], handlers, indexesChanged)
    IN  /\ emitLog.n < MaxEmitterOps
        /\ IF index # 0
           THEN /\ indexesChanged' = indexesChanged + 1
                /\ handlers' = Splice(handlers, index)
           ELSE UNCHANGED <<indexesChanged, handlers>>
        /\ registrations' = [registrations EXCEPT ![r].subscribed = FALSE]
        /\ emitLog' = Emitted
        /\ UNCHANGED emission

\* clear()
ClearHandlers ==
    /\ emitLog.n < MaxEmitterOps
    /\ handlers' = <<>>
    /\ registrations' = [r \in DOMAIN registrations |->
                            [registrations[r] EXCEPT !.subscribed = FALSE]]
    /\ emitLog' = [Emitted EXCEPT !.cleared = TRUE]
    /\ UNCHANGED <<indexesChanged, emission>>

\* ghost: the emission is over, with the handlers it has invoked
Finished(invoked, due) ==
    [emitLog EXCEPT !.n = @ + 1, !.emits = @ + 1, !.invoked = invoked, !.due = due]

\* emit(payload), up to the call of the first handler of the snapshot
Emit ==
    /\ emitLog.n < MaxEmitterOps
    /\ ~emission.on
    /\ IF handlers = <<>>
       THEN /\ emitLog' = Finished(<<>>, HandlersOf(Subscribed))
            /\ UNCHANGED emission
       ELSE /\ emission' = [on |-> TRUE, snapshot |-> handlers, at |-> 1,
                            due |-> HandlersOf(Subscribed)]
            /\ emitLog' = Emitted
    /\ UNCHANGED <<handlers, indexesChanged, registrations>>

\* emit(payload): the handler that was called returns, and the loop calls the
\* next one or ends
EmitNext ==
    /\ emission.on
    /\ IF emission.at < Len(emission.snapshot)
       THEN /\ emission' = [emission EXCEPT !.at = @ + 1]
            /\ UNCHANGED emitLog
       ELSE /\ emission' = NoEmission
            /\ emitLog' = [emitLog EXCEPT !.emits = @ + 1,
                                          !.invoked = HandlersOf(emission.snapshot),
                                          !.due = emission.due]
    /\ UNCHANGED <<handlers, indexesChanged, registrations>>

\* what the calls on the emitter leave as it is
EmitterOnly ==
    /\ UNCHANGED <<state, compare, changes, futures, batchChanges, touched, muts,
                   calls, lastSet, lastLanded, settled>>
    /\ UNCHANGED <<batchVars, modeVars, lazyVars, linkVars, famVars, notEmit>>

NextEmitter ==
    \/ \E handler \in Handlers : Add(handler) /\ EmitterOnly
    \/ \E r \in DOMAIN registrations : Unsubscribe(r) /\ EmitterOnly
    \/ ClearHandlers /\ EmitterOnly
    \/ Emit /\ EmitterOnly
    \/ EmitNext /\ EmitterOnly

SpecEmitter == InitPlain /\ [][NextEmitter]_vars

\* ------------------------------------------------------------------ merge

\* the keys of the profile, and what their values are
Fields == {"username", "password"}
FieldValues == 0..1

\* the objects a profile can be, and the partial objects merge is called with
Profiles == [Fields -> FieldValues]
Partials == UNION {[keys -> FieldValues] : keys \in SUBSET Fields}

\* the object of a reference with the properties of obj
Literal(ref, obj) == Obj(ref, 2 * obj["username"] + obj["password"])

\* the properties of an object
Properties(v) ==
    [key \in Fields |-> IF key = "username" THEN Content(v) \div 2 ELSE Content(v) % 2]

\* blok({ username: "", password: "" }) as container 1
InitMerge ==
    /\ state = [b \in Bloks |->
                   [data |-> IF b = 1 THEN Literal(0, [key \in Fields |-> 0]) ELSE 0,
                    loading |-> FALSE, error |-> Undefined, id |-> 1]]
    /\ compare = [b \in Bloks |-> "Object.is"]
    /\ initialData = [b \in Bloks |-> NoData]
    /\ initialized = [b \in Bloks |-> TRUE]
    /\ link = NoLink
    /\ InitRest
    /\ famCompare = "Object.is"

\* mergeData(prev, next); ref is the reference of the object the spread makes
MergeData(prev, next, ref) ==
    IF \E key \in DOMAIN next : Properties(prev)[key] # next[key]
    THEN Literal(ref, Spread(Properties(prev), next))
    ELSE prev

\* the record of a call on the profile that made `made` objects
Merged(op, partial, made) ==
    [n |-> mergeLog.n + 1, op |-> op, partial |-> partial,
     made |-> mergeLog.made + made]

\* a set call without mode on the profile, with what the call is recorded as
ProfileSet(nd, log) ==
    /\ mergeLog.n < MaxMergeOps
    /\ state' = [state EXCEPT ![1] = SetState(1, @, nd)]
    /\ Notify(1, Notified(state[1], SetState(1, state[1], nd)))
    /\ mergeLog' = log
    /\ UNCHANGED <<futures, calls, lastSet, lastLanded, compare, settled>>
    /\ UNCHANGED <<batchVars, modeVars, lazyVars, linkVars, famVars, notMerge>>

\* profile.merge(partial)
Merge(partial) ==
    LET next == MergeData(state[1].data, partial, mergeLog.made + 1)
    IN  ProfileSet([kind |-> "updaterValue", x |-> next, e |-> Undefined],
                   Merged("merge", partial, IF next = state[1].data THEN 0 ELSE 1))

\* profile.set({ username, password })
MergeSet(obj) ==
    ProfileSet([kind |-> "value", x |-> Literal(mergeLog.made + 1, obj), e |-> Undefined],
               Merged("set", obj, 1))

\* profile.set(() => { throw e })
MergeThrow(e) ==
    ProfileSet([kind |-> "updaterThrow", x |-> 0, e |-> e], Merged("throw", <<>>, 0))

NextMerge ==
    \/ \E partial \in Partials : Merge(partial)
    \/ \E obj \in Profiles : MergeSet(obj)
    \/ \E e \in Errors : MergeThrow(e)

SpecMerge == InitMerge /\ [][NextMerge]_vars

\* --------------------------------------------------------- update context

\* what container 1 is set to: a value, a promise, or an updater that returns
\* one of them
Updates == {nd \in NextData : nd.kind # "updaterThrow" /\ nd.x \in 0..1}

\* createUpdateContext(), for an updater that reads context.signal or does not;
\* future is the promise the updater returned, or 0
UpdateContext(signal, future) ==
    [abortController |-> signal, aborted |-> FALSE, future |-> future]

\* context.cancel(): abortController?.abort()
Cancel(context) == [context EXCEPT !.aborted = context.abortController]

\* lastUpdateContext?.cancel()
CancelLast(contexts, last) ==
    IF last = 0 THEN contexts ELSE [contexts EXCEPT ![last] = Cancel(@)]

\* ghost: the latest update of an updater whose promise is still pending, or 0
PendingUpdate ==
    LET pending == {c \in DOMAIN updateContexts :
                       /\ updateContexts[c].future # 0
                       /\ futures[updateContexts[c].future].status = "pending"
                       /\ ~Stale(futures[updateContexts[c].future].snapshot, state[1])}
    IN  IF pending = {} THEN 0
        ELSE CHOOSE c \in pending : \A d \in pending : d <= c

\* blok.set(nextData) on container 1; an updater is passed a new UpdateContext,
\* which is a local of the call: lastUpdateContext is assigned nowhere
UpdateSet(nd, signal) ==
    LET cancelled == CancelLast(updateContexts, lastUpdateContext)
        future == IF IsThenable(nd) THEN Len(futures) + 1 ELSE 0
    IN  /\ updateLog.n < MaxUpdates
        /\ IsThenable(nd) => Len(futures) < MaxFutures
        /\ nd.kind \in {"value", "promise"} => ~signal
        /\ updateContexts' = IF nd.kind \in {"updaterValue", "updaterPromise"}
                             THEN Append(cancelled, UpdateContext(signal, future))
                             ELSE cancelled
        /\ updateLog' = [n |-> updateLog.n + 1, superseded |-> PendingUpdate]
        /\ SetCall(1, nd)
        /\ UNCHANGED <<lastUpdateContext, compare, settled>>
        /\ UNCHANGED <<batchVars, modeVars, lazyVars, linkVars, famVars, notUpd>>

NextUpdate ==
    \/ \E nd \in Updates, signal \in BOOLEAN : UpdateSet(nd, signal)
    \/ \E i \in DOMAIN futures : Resolve(i)
    \/ \E i \in DOMAIN futures : Reject(i)

SpecUpdate == InitPlain /\ [][NextUpdate]_vars

\* ------------------------------------------- dispose of a derived container

\* the unsubscribes array, were dispose to leave the functions in it
UnsubscribesKept(made, shifted) == IF made THEN <<1, 2>> ELSE <<>>

\* the unsubscribes array: one function per entry of the source map, less the
\* ones dispose has shifted out
Unsubscribes(made, shifted) ==
    IF made
    THEN SelectSeq(<<1, 2>>, LAMBDA a : \A i \in DOMAIN shifted : shifted[i] # a)
    ELSE <<>>

\* from() has been called
Made == link.on \/ unlink.disposes > 0

\* derived.dispose(): while (unsubscribes.length) unsubscribes.shift()?.()
DisposeLinked ==
    LET left == Unsubscribes(Made, unlink.shifted)
    IN  /\ Made
        /\ unlink.disposes < MaxDisposes
        /\ unlink' = [shifted |-> unlink.shifted \o left,
                      called |-> [a \in DOMAIN unlink.called |->
                                     unlink.called[a]
                                       + Cardinality({i \in DOMAIN left : left[i] = a})],
                      disposes |-> unlink.disposes + 1]
        /\ link' = [link EXCEPT !.on = IF left = <<>> THEN @ ELSE FALSE]
        /\ UNCHANGED <<state, compare, changes, futures, batchChanges, touched, muts,
                       calls, lastSet, lastLanded, settled, selLog>>
        /\ UNCHANGED <<batchVars, modeVars, lazyVars, famVars, notUnlink>>

\* from(sources, selector, options), called once
LinkOnce == unlink.disposes = 0 /\ LinkFrom

NextUnlink ==
    \/ LinkOnce
    \/ \E a \in Sources : SourceSet(a)
    \/ \E i \in DOMAIN futures : SourceResolve(i)
    \/ \E i \in DOMAIN futures : SourceReject(i)
    \/ FireLinked
    \/ Elapse
    \/ DisposeLinked

SpecUnlink == InitFrom /\ [][NextUnlink]_vars

\* ------------------------------------------------- loading and error

\* what the container is set to: a value, a promise, or an updater that
\* returns a value, returns a promise or throws
StateData == {nd \in NextData : nd.x = (IF IsThenable(nd) \/ nd.kind = "updaterThrow"
                                          THEN 0 ELSE 1)}

\* blok.set(nextData) on a container whose data an updater can read without
\* running the initializer
StateSet(b) ==
    \E nd \in StateData :
        /\ lastOp.n < MaxOps
        /\ IsThenable(nd) => Len(futures) < MaxFutures
        /\ nd.kind \in {"updaterValue", "updaterPromise", "updaterThrow"}
               => initialized[b]
        /\ lastOp' = Op(IF state[b].error # Undefined THEN "setOnError" ELSE "set", b)
        /\ SetCall(b, nd)
        /\ UNCHANGED <<compare, settled, initialData, initialized, produced>>
        /\ UNCHANGED <<batchVars, modeVars, linkVars, famVars, moreVars>>

\* blok.clearError()
ClearError(b) ==
    /\ lastOp.n < MaxOps
    /\ lastOp' = Op("clearError", b)
    /\ state' = [state EXCEPT ![b] = ChangeState(@, [error |-> Undefined])]
    /\ Notify(b, Notified(state[b], ChangeState(state[b], [error |-> Undefined])))
    /\ UNCHANGED <<compare, futures, calls, lastSet, lastLanded, settled,
                   initialData, initialized, produced>>
    /\ UNCHANGED <<batchVars, modeVars, linkVars, famVars, moreVars>>

\* a promise the container was set to resolves
StateResolve(i) == Settle(i, TRUE, 2, Undefined)

NextState ==
    \/ ReadData(1)
    \/ Reset(1)
    \/ StateSet(1)
    \/ ClearError(1)
    \/ \E i \in DOMAIN futures : StateResolve(i)
    \/ \E i \in DOMAIN futures : Reject(i)

SpecState == InitLazy /\ [][NextState]_vars

\* ----------------------------------------------------------------- action

\* the UpdateContext object, and the string that + makes of a number and an object
ContextObject == MaxValue + 4
Concatenated == MaxValue + 5

\* the reducers actions are made from:
\*   increment: (prev) => prev + 1
\*   add: (prev, context, by) => prev + by
Reducers == {"increment", "add"}

\* the arguments the actions are called with
Arguments == {<<>>, <<1>>}

\* a + b
Plus(a, b) ==
    IF a \in 0..MaxValue /\ b \in 0..MaxValue THEN a + b
    ELSE IF a = UndefinedData \/ b = UndefinedData THEN NaN
    ELSE Concatenated

\* the i-th parameter of a call with the arguments args
Parameter(args, i) == IF i \in DOMAIN args THEN args[i] ELSE UndefinedData

\* f.apply(null, args)
Apply(f, args) ==
    IF f = "increment"
    THEN Plus(Parameter(args, 1), 1)
    ELSE Plus(Parameter(args, 1), Parameter(args, 3))

\* the arguments the updater of an action hands to the reducer:
\* outer.concat(inner), inner being (prev, context)
Received(outer, inner) == outer \o inner

\* the function blok.action(f) returned, called with the arguments outer
Act(f, outer) ==
    LET received == Received(outer, <<state[1].data, ContextObject>>)
        next == Apply(f, received)
    IN  /\ actLog.n < MaxActions
        /\ next \in (0..MaxValue) \cup {NaN, Concatenated}
        /\ actLog' = [n |-> actLog.n + 1, reducer |-> f, outer |-> outer,
                      received |-> received]
        /\ SetCall(1, [kind |-> "updaterValue", x |-> next, e |-> Undefined])
        /\ UNCHANGED <<compare, settled>>
        /\ UNCHANGED <<batchVars, modeVars, lazyVars, linkVars, famVars, notAct>>

\* blok.set(value) on the container of the actions
ActSet ==
    \E x \in 0..1 :
        /\ actLog.n < MaxActions
        /\ actLog' = [NoAction EXCEPT !.n = actLog.n + 1]
        /\ SetCall(1, [kind |-> "value", x |-> x, e |-> Undefined])
        /\ UNCHANGED <<compare, settled>>
        /\ UNCHANGED <<batchVars, modeVars, lazyVars, linkVars, famVars, notAct>>

NextAction ==
    \/ \E f \in Reducers, outer \in Arguments : Act(f, outer)
    \/ ActSet

SpecAction == InitPlain /\ [][NextAction]_vars

\* ------------------------------------------------- set after debounce

\* what the plain set call writes: a value that debounce is not called with
Latest == [kind |-> "value", x |-> MaxValue, e |-> Undefined]

\* blok.set(y) without mode, on a container debounce may have set a timer for:
\* lastUpdateContext is undefined, and debounce has returned no controller to
\* dispose, so the timer is left as it is
SetPlain(b) ==
    /\ Len(modeLog) < MaxModeCalls
    /\ SetCall(b, Latest)
    /\ modeLog' = Append(modeLog, ModeCall("none", b, Latest, TRUE))
    /\ UNCHANGED <<compare, settled, concurrentContext, concurrentController,
                   timers, timerSeq, now, realized>>
    /\ UNCHANGED batchVars
    /\ UNCHANGED extVars

NextSupersede ==
    \/ SetDebounce(1)
    \/ SetPlain(1)
    \/ FireTimer
    \/ Tick

SpecSupersede == InitPlain /\ [][NextSupersede]_vars

\* ------------------------------------------------- batch that throws

\* the record of a batch call that ends, by return or by an exception
Ended(thrown) ==
    [stack |-> SubSeq(outcome.stack, 1, Len(outcome.stack) - 1),
     propagating |-> thrown,
     throws |-> outcome.throws + (IF thrown THEN 1 ELSE 0),
     returns |-> outcome.returns + (IF thrown THEN 0 ELSE 1)]

\* batch(mutation), up to the call of mutation
ThrowEnter ==
    /\ ~outcome.propagating
    /\ outcome.throws + outcome.returns + Len(outcome.stack) < MaxBatchCalls
    /\ BatchTry
    /\ outcome' = [outcome EXCEPT !.stack = Append(@, mutationCount)]
    /\ UNCHANGED <<lazyVars, linkVars, famVars, notOutcome>>

\* a set call inside or outside a batch; set catches what an updater throws
ThrowMutate(b) == ~outcome.propagating /\ Mutate(b)

\* batch(mutation): mutation returns, and the finally block runs
BatchReturn ==
    /\ ~outcome.propagating
    /\ BatchFinally
    /\ outcome' = Ended(FALSE)
    /\ UNCHANGED <<lazyVars, linkVars, famVars, notOutcome>>

\* batch(mutation): mutation throws, or lets the exception of an inner batch
\* through; the finally block runs and, there being no catch, the exception
\* goes on to the caller
BatchThrow ==
    /\ BatchFinally
    /\ outcome' = Ended(TRUE)
    /\ UNCHANGED <<lazyVars, linkVars, famVars, notOutcome>>

\* the caller of a batch that threw catches the exception
Catch ==
    /\ outcome.propagating
    /\ outcome' = [outcome EXCEPT !.propagating = FALSE]
    /\ UNCHANGED <<state, compare, changes, futures, batchChanges, touched, muts,
                   calls, lastSet, lastLanded, settled>>
    /\ UNCHANGED <<batchVars, modeVars, lazyVars, linkVars, famVars, notOutcome>>

NextThrow ==
    \/ \E b \in 1..2 : ThrowMutate(b)
    \/ ThrowEnter
    \/ BatchReturn
    \/ BatchThrow
    \/ Catch

SpecThrow == InitPlain /\ [][NextThrow]_vars

\* ------------------------------------------------------------ claims, Spec

Pending(b) == {i \in DOMAIN futures : futures[i].blok = b /\ futures[i].status = "pending"}

\* the step is a set call without mode on b with a plain value
IsValueSet(b) == calls'[b] = calls[b] + 1 /\ lastSet'[b].kind = "value"

\* C1: set(x) without a mode, with x equal to the current data under the
\* container's comparer, notifies no listener (neither at once nor through the
\* batch's pending set) and leaves data the value it was.
C1_EqualSetIsSilent ==
    [][\A b \in Bloks :
          (IsValueSet(b) /\ Compare(b, lastSet'[b].x, state[b].data))
              => /\ changes'[b] = changes[b]
                 /\ batchChanges' = batchChanges
                 /\ state'[b].data = state[b].data]_vars

\* the pair A, B of C2: B is the set issued right after A and the latest set of
\* the container, A was issued on a container that was not loading, and B
\* resolved before A settled
RacePair(ia, ib) ==
    LET A == futures[ia]
        B == futures[ib]
    IN  /\ A.blok = B.blok
        /\ B.issue = A.issue + 1
        /\ B.issue = calls[B.blok]
        /\ ~A.wasLoading
        /\ B.status = "resolved"
        /\ A.status # "pending"
        /\ B.order < A.order

\* C2: set(futureA), set(futureB), futureB resolves first and futureA settles
\* later: the container is not loading, its data is futureB's value, and the
\* state object is still the one futureB's resolution made.
C2_LaterFutureResolvingFirstWins ==
    \A ia \in DOMAIN futures : \A ib \in DOMAIN futures :
        RacePair(ia, ib)
            => LET s == state[futures[ib].blok]
               IN  /\ ~s.loading
                   /\ s.data = futures[ib].x
                   /\ s.error = Undefined
                   /\ s.id = futures[ib].after

C2_Witness ==
    \E ia \in DOMAIN futures : \E ib \in DOMAIN futures :
        /\ RacePair(ia, ib)
        /\ futures[ia].status = "resolved"
        /\ futures[ia].x # futures[ib].x

\* C3: once every future of a container has settled, data and error are those
\* of the latest set: its value (or the data the comparer found equal to it),
\* the value its future resolved with, or the error its future rejected with.
C3_LatestSetWins ==
    \A b \in Bloks :
        (calls[b] > 0 /\ Pending(b) = {})
            => /\ lastSet[b].kind = "value"
                      => /\ state[b].data = lastSet[b].x
                                \/ Compare(b, lastSet[b].x, state[b].data)
                         /\ state[b].error = Undefined
               /\ \A i \in DOMAIN futures :
                      (futures[i].blok = b /\ futures[i].issue = calls[b])
                          => /\ futures[i].status = "resolved"
                                    => /\ state[b].data = futures[i].x
                                       /\ state[b].error = Undefined
                             /\ futures[i].status = "rejected"
                                    => state[b].error =
                                         IF futures[i].e = AbortError
                                         THEN Undefined ELSE futures[i].e

\* C4: a future passed to set settles after a set issued later than its own
\* has changed the container: the settlement changes nothing and notifies
\* nobody.
C4_StaleSettlementDiscarded ==
    [][\A i \in DOMAIN futures :
          (/\ futures[i].status = "pending"
           /\ futures'[i].status # "pending"
           /\ lastLanded[futures[i].blok] > futures[i].issue)
              => /\ state'[futures[i].blok] = state[futures[i].blok]
                 /\ changes' = changes
                 /\ batchChanges' = batchChanges]_vars

C4_Witness ==
    \E i \in DOMAIN futures : \E j \in DOMAIN futures :
        /\ futures[i].blok = futures[j].blok
        /\ futures[j].issue > futures[i].issue
        /\ futures[j].landed
        /\ futures[j].order < futures[i].order
        /\ futures[i].status = "resolved"
        /\ futures[i].x # state[futures[i].blok].data

\* the step is a set call without mode on b with an updater that throws
IsThrowSet(b) == calls'[b] = calls[b] + 1 /\ lastSet'[b].kind = "updaterThrow"

\* the step is a set call without mode on b with a promise
IsPromiseSet(b) == calls'[b] = calls[b] + 1 /\ IsThenable(lastSet'[b])

\* the step settles future i, whose snapshot is still the container's state
IsFreshSettle(i) ==
    /\ futures[i].status = "pending"
    /\ futures'[i].status # "pending"
    /\ futures[i].snapshot = state[futures[i].blok].id

\* the step settles future i, whose snapshot is no longer the container's state
IsStaleSettle(i) ==
    /\ futures[i].status = "pending"
    /\ futures'[i].status # "pending"
    /\ futures[i].snapshot # state[futures[i].blok].id

\* C11: a set whose updater throws E, and the rejection with an error E other
\* than AbortError of a future that is not stale, leave the container at
\* loading = false, error = E and the data it had, and the listeners are
\* notified once whenever that changed the state.
C11_ErrorsAreStoredAndNotified ==
    [][/\ \A b \in Bloks :
             IsThrowSet(b)
                 => /\ ~state'[b].loading
                    /\ state'[b].error = lastSet'[b].e
                    /\ state'[b].data = state[b].data
                    /\ changes'[b] = changes[b] +
                           (IF state'[b] # state[b] THEN 1 ELSE 0)
       /\ \A i \in DOMAIN futures :
             (/\ IsFreshSettle(i)
              /\ futures'[i].status = "rejected"
              /\ futures'[i].e # AbortError)
                 => LET b == futures[i].blok
                    IN  /\ ~state'[b].loading
                        /\ state'[b].error = futures'[i].e
                        /\ state'[b].data = state[b].data
                        /\ changes'[b] = changes[b] + 1]_vars

C11_Witness ==
    /\ lastSet[1].kind = "updaterThrow"
    /\ \E i \in DOMAIN futures :
           /\ futures[i].status = "rejected"
           /\ futures[i].e \in Errors
           /\ futures[i].landed
           /\ futures[i].issue < calls[1]
    /\ state[1].error \in Errors
    /\ changes[1] >= 3

\* C12, as claimed: the rejection of a future with AbortError stores no error
\* and notifies no listener.
C12_AbortIsSilent ==
    [][\A i \in DOMAIN futures :
          (/\ futures[i].status = "pending"
           /\ futures'[i].status = "rejected"
           /\ futures'[i].e = AbortError)
              => /\ state'[futures[i].blok].error = state[futures[i].blok].error
                 /\ changes' = changes
                 /\ batchChanges' = batchChanges]_vars

\* C12, amended: the rejection of a future with AbortError stores no error and
\* leaves data alone; when the future is not stale the container leaves
\* loading with error undefined and the listeners are notified once of that,
\* and when it is stale nothing changes and nobody is notified.
C12_AbortStoresNoError ==
    [][\A i \in DOMAIN futures :
          (futures'[i].status = "rejected" /\ futures'[i].e = AbortError)
              => LET b == futures[i].blok
                 IN  /\ IsFreshSettle(i)
                            => /\ state'[b].error = Undefined
                               /\ ~state'[b].loading
                               /\ state'[b].data = state[b].data
                               /\ changes'[b] = changes[b] + 1
                     /\ IsStaleSettle(i)
                            => /\ state'[b] = state[b]
                               /\ changes' = changes]_vars

C12_Witness ==
    \E i \in DOMAIN futures :
        /\ futures[i].status = "rejected"
        /\ futures[i].e = AbortError
        /\ futures[i].landed
        /\ state[1].id = futures[i].after
        /\ state[1].error = Undefined
        /\ ~state[1].loading
        /\ changes[1] = 2

\* C13: set(future) on a container that is not loading makes it loading with
\* error undefined and the data it had and notifies the listeners once; when
\* a future that is not stale resolves with v the state becomes data = v,
\* loading = false, error = undefined.
C13_FutureSetLoadsThenLands ==
    [][/\ \A b \in Bloks :
             (IsPromiseSet(b) /\ ~state[b].loading)
                 => /\ state'[b].loading
                    /\ state'[b].error = Undefined
                    /\ state'[b].data = state[b].data
                    /\ changes'[b] = changes[b] + 1
       /\ \A i \in DOMAIN futures :
             (IsFreshSettle(i) /\ futures'[i].status = "resolved")
                 => LET b == futures[i].blok
                    IN  /\ state'[b].data = futures'[i].x
                        /\ ~state'[b].loading
                        /\ state'[b].error = Undefined]_vars

C13_Witness ==
    \E i \in DOMAIN futures :
        /\ futures[i].status = "resolved"
        /\ futures[i].landed
        /\ ~futures[i].wasLoading
        /\ futures[i].issue >= 2
        /\ state[1].id = futures[i].after
        /\ state[1].data = futures[i].x
        /\ state[1].data = MaxValue

\* ------------------------------------------------------- claims, SpecBatch

\* the step ends the outermost batch
OutermostExit == mutationCount = 1 /\ mutationCount' = 0

\* C5: while a batch runs no listener is notified, and when the outermost
\* batch returns the listeners of a container whose state changed N >= 1 times
\* inside it (nested batches included) have been notified exactly once more,
\* those of an unchanged container not at all.
C5_OneNotificationPerBatch ==
    [][/\ mutationCount' > 0 => changes' = entry'
       /\ OutermostExit
             => \A b \in Bloks :
                    changes'[b] = entry[b] + (IF muts[b] >= 1 THEN 1 ELSE 0)]_vars

C5_Witness ==
    /\ mutationCount = 0
    /\ deepest = 2
    /\ flushLog # <<>>
    /\ \E b \in Bloks : muts[b] >= 2 /\ changes[b] = entry[b] + 1

\* C6: an inner batch that returns notifies nobody; the outermost batch's
\* return notifies each container changed inside it exactly once, in the order
\* in which the containers were first changed.
C6_FlushOncePerContainerInOrder ==
    [][/\ (mutationCount > 1 /\ mutationCount' = mutationCount - 1)
             => changes' = changes
       /\ OutermostExit
             => /\ flushLog' = touched
                /\ \A b \in Bloks :
                       changes'[b] - changes[b] = Count(touched, b)
                /\ \A b \in Bloks : Count(touched, b) <= 1]_vars

C6_Witness ==
    /\ mutationCount = 0
    /\ flushLog = <<2, 1>>
    /\ muts[2] >= 2
    /\ muts[1] >= 1
    /\ deepest = 2

\* ------------------------------------------------------- claims, SpecTimer

\* the calls of set(x, debounce(Ms)) so far, and the updates they led to
DebounceCalls == SelectSeq(modeLog, LAMBDA c : c.mode = "debounce")
DebounceRealized == SelectSeq(realized, LAMBDA r : r.via = "debounce")

\* each debounce call came less than Ms after the one before
Burst ==
    \A i \in 2..Len(DebounceCalls) :
        DebounceCalls[i].t - DebounceCalls[i - 1].t < Ms

\* the index in modeLog of the latest debounce call
LastDebounce ==
    CHOOSE i \in DOMAIN modeLog :
        /\ modeLog[i].mode = "debounce"
        /\ \A j \in DOMAIN modeLog : modeLog[j].mode = "debounce" => j <= i

\* C7: after a burst of set(x_i, debounce(Ms)) calls, each less than Ms after
\* the one before, at most one update has been realized; it is the last call's,
\* made Ms or more after that call; as long as none is realized exactly one
\* timer is pending, and it holds the last call's argument.
C7_DebounceRealizesLastCallOnce ==
    (Len(DebounceCalls) >= 1 /\ Burst)
        => /\ Len(DebounceRealized) <= 1
           /\ \A k \in DOMAIN DebounceRealized :
                  /\ DebounceRealized[k].call = LastDebounce
                  /\ DebounceRealized[k].nd = modeLog[LastDebounce].nd
                  /\ DebounceRealized[k].t >= modeLog[LastDebounce].t + Ms
                  /\ timers = {}
           /\ Len(DebounceRealized) = 0
                  => /\ Cardinality(timers) = 1
                     /\ \A t \in timers : /\ t.call = LastDebounce
                                          /\ t.nd = modeLog[LastDebounce].nd
                                          /\ t.due = modeLog[LastDebounce].t + Ms

C7_Witness ==
    /\ Len(DebounceCalls) >= 3
    /\ Burst
    /\ Len(DebounceRealized) = 1
    /\ DebounceCalls[1].nd # DebounceCalls[3].nd
    /\ state[1].data = DebounceCalls[3].nd.x
    /\ state[1].data # 0

\* whether the throttled call number i of modeLog was carried out, and when
Applied(i) ==
    \E k \in DOMAIN realized : realized[k].via = "throttle" /\ realized[k].call = i

\* C8: a throttled call is applied exactly when no throttled call was applied
\* before it or the last applied one lies Ms or more back; it is applied at
\* the time of the call, once, and a dropped call is never applied.
C8_ThrottleAppliesAtMostOncePerMs ==
    \A i \in DOMAIN modeLog :
        modeLog[i].mode = "throttle"
            => LET before == {j \in 1..(i - 1) :
                                 modeLog[j].mode = "throttle" /\ Applied(j)}
               IN  /\ Applied(i) <=>
                         \A j \in before : modeLog[i].t >= modeLog[j].t + Ms
                   /\ Cardinality({k \in DOMAIN realized :
                          realized[k].via = "throttle" /\ realized[k].call = i}) <= 1
                   /\ \A k \in DOMAIN realized :
                          (realized[k].via = "throttle" /\ realized[k].call = i)
                              => /\ realized[k].t = modeLog[i].t
                                 /\ realized[k].nd = modeLog[i].nd

C8_Witness ==
    \E i \in DOMAIN modeLog : \E j \in DOMAIN modeLog : \E k \in DOMAIN modeLog :
        /\ i < j /\ j < k
        /\ modeLog[i].mode = "throttle" /\ Applied(i)
        /\ modeLog[j].mode = "throttle" /\ ~Applied(j)
        /\ modeLog[k].mode = "throttle" /\ Applied(k)
        /\ modeLog[k].t = modeLog[i].t + Ms

\* -------------------------------------------------------- claims, SpecDrop

\* a droppable update of b was admitted and its promise has not settled
InFlight(b) ==
    \E i \in DOMAIN modeLog :
        /\ modeLog[i].mode = "droppable" /\ modeLog[i].blok = b
        /\ modeLog[i].admitted
        /\ modeLog[i].fut > 0
        /\ futures[modeLog[i].fut].status = "pending"

\* the step is a call of set(..., droppable()) on b
IsDroppableSet(b) ==
    /\ Len(modeLog') = Len(modeLog) + 1
    /\ modeLog'[Len(modeLog')].mode = "droppable"
    /\ modeLog'[Len(modeLog')].blok = b

\* C9: set(..., droppable()) called while a droppable update is in flight is
\* dropped: no set is carried out for it, then or later, and nothing of the
\* container changes; when the update in flight resolves and no other set was
\* made since, data is the value it resolved with.
C9_DroppedWhileInFlight ==
    /\ [][\A b \in Bloks :
            (IsDroppableSet(b) /\ InFlight(b))
                => /\ ~modeLog'[Len(modeLog')].admitted
                   /\ state' = state
                   /\ futures' = futures
                   /\ changes' = changes
                   /\ timers' = timers
                   /\ realized' = realized]_vars
    /\ [](\A i \in DOMAIN modeLog :
            (/\ modeLog[i].mode = "droppable"
             /\ ~modeLog[i].admitted)
                => \A k \in DOMAIN realized : realized[k].call # i)
    /\ [](\A i \in DOMAIN modeLog :
            (/\ modeLog[i].mode = "droppable"
             /\ modeLog[i].fut > 0
             /\ futures[modeLog[i].fut].status = "resolved"
             /\ futures[modeLog[i].fut].issue = calls[modeLog[i].blok])
                => state[modeLog[i].blok].data = futures[modeLog[i].fut].x)

C9_Witness ==
    \E i \in DOMAIN modeLog : \E j \in DOMAIN modeLog :
        /\ i < j
        /\ modeLog[i].mode = "droppable" /\ modeLog[i].fut > 0
        /\ modeLog[j].mode = "droppable" /\ ~modeLog[j].admitted
        /\ modeLog[j].nd.kind = "value"
        /\ futures[modeLog[i].fut].status = "resolved"
        /\ futures[modeLog[i].fut].order > modeLog[j].settled
        /\ state[1].data = futures[modeLog[i].fut].x
        /\ state[1].data # modeLog[j].nd.x

\* C10: when a droppable update has settled its controller's done() has been
\* called and the in-flight token is cleared, so a set(..., droppable()) made
\* while no droppable update is in flight is admitted and carried out.
C10_SettledDroppableAdmitsNext ==
    [][\A b \in Bloks :
          (IsDroppableSet(b) /\ ~InFlight(b))
              => /\ modeLog'[Len(modeLog')].admitted
                 /\ Len(realized') = Len(realized) + 1]_vars

\* -------------------------------------------------------- claims, SpecLazy

\* the step is an operation of one of the given kinds on b
IsOp(b, kinds) ==
    /\ lastOp'.n = lastOp.n + 1
    /\ lastOp'.blok = b
    /\ lastOp'.op \in kinds

\* C14: a container created with a producer has not invoked it at
\* construction; reading loading or error and listen() neither invoke it nor
\* change the state; a read of data (blok.data, get()) invokes it exactly when
\* it has not been invoked before, so that after the read it has run, and a
\* later read does not invoke it again.
C14_ProducerRunsOnFirstDataRead ==
    /\ [](lastOp.n = 0 => \A b \in Bloks : produced[b] = 0 /\ state[b].id = 1)
    /\ [][\A b \in Bloks :
            /\ IsOp(b, {"loading", "error", "listen"})
                   => produced' = produced /\ state' = state /\ changes' = changes
            /\ IsOp(b, {"data", "get"})
                   => produced'[b] = (IF produced[b] = 0 THEN 1 ELSE produced[b])]_vars

C14_Witness ==
    /\ lastOp.n >= 3
    /\ lastOp.op = "get"
    /\ produced[1] = 1
    /\ calls[1] = 1
    /\ initialData[1].kind = "updaterValue"
    /\ state[1].data = 1
    /\ changes[1] = 1

\* -------------------------------------------------------- claims, SpecFrom

\* source a is neither loading nor in error
IsSettled(st, a) == ~st[a].loading /\ st[a].error = Undefined

\* source a is in error and not loading
IsErrored(st, a) == ~st[a].loading /\ st[a].error # Undefined

\* the first entry of the source map
FirstSource == CHOOSE a \in Sources : \A c \in Sources : a <= c

\* the step ran handleChange
IsHandled == link'.handled = link.handled + 1

\* C15: a derived container, made with or without a mode and never written to
\* directly, is loading whenever one of its sources is loading.
C15_LoadingWhileSourceLoads ==
    (link.on /\ \E a \in Sources : state[a].loading) => state[Linked].loading

IsShallowEqual(sel) ==
    \/ sel.raw = sel.prev /\ sel.raw # NaN
    \/ IsObj(sel.raw) /\ IsObj(sel.prev) /\ Content(sel.raw) = Content(sel.prev)

\* the step ran the selector
IsSelection == selLog'.n = selLog.n + 1

KeysEqual(a, b) ==
    \/ a = b
    \/ famCompare = "shallow" /\ IsObj(a) /\ IsObj(b) /\ Content(a) = Content(b)

\* calls i and j of famLog are gets with equal keys
SameKeyGets(i, j) ==
    /\ famLog[i].op = "get"
    /\ famLog[j].op = "get"
    /\ KeysEqual(famLog[i].key, famLog[j].key)

\* C19: two gets with equal keys, with no clear and no dispose of the member
\* the first returned between them, return the same member and the second
\* does not invoke the factory; the map never holds two entries whose keys
\* are equal.
C19_EqualKeysShareOneMember ==
    /\ \A i \in DOMAIN famLog : \A j \in DOMAIN famLog :
           (/\ i < j
            /\ SameKeyGets(i, j)
            /\ \A k \in (i + 1)..(j - 1) :
                   /\ famLog[k].op # "clear"
                   /\ ~(famLog[k].op = "dispose"
                          /\ famLog[k].member = famLog[i].member))
               => /\ famLog[j].member = famLog[i].member
                  /\ ~famLog[j].made
    /\ \A p \in DOMAIN map : \A q \in DOMAIN map :
           p # q => ~KeysEqual(map[p].key, map[q].key)

\* C20: the dispose of a member the family holds removes its entry and no
\* other; the next get with an equal key invokes the factory and returns a
\* new member, and a get for another key, with nothing but gets and that
\* dispose since the key's member was last returned, returns that member
\* without invoking the factory.
C20_DisposeEvictsOwnEntryOnly ==
    /\ [][\A m \in DOMAIN memberKey :
            (/\ Len(famLog') = Len(famLog) + 1
             /\ famLog'[Len(famLog')].op = "dispose"
             /\ famLog'[Len(famLog')].member = m
             /\ \E i \in DOMAIN map : map[i].member = m)
                => map' = SelectSeq(map, LAMBDA held : held.member # m)]_vars
    /\ [](\A i \in DOMAIN famLog : \A j \in DOMAIN famLog :
            (/\ i < j
             /\ famLog[i].op = "dispose"
             /\ famLog[i].live
             /\ famLog[j].op = "get"
             /\ KeysEqual(famLog[i].key, famLog[j].key)
             /\ \A k \in (i + 1)..(j - 1) :
                    ~(famLog[k].op = "get"
                       /\ KeysEqual(famLog[k].key, famLog[i].key)))
                => /\ famLog[j].made
                   /\ famLog[j].member # famLog[i].member
                   /\ \A k \in 1..(j - 1) : famLog[k].member # famLog[j].member)
    /\ [](\A h \in DOMAIN famLog : \A i \in DOMAIN famLog : \A j \in DOMAIN famLog :
            (/\ h < i /\ i < j
             /\ SameKeyGets(h, j)
             /\ famLog[i].op = "dispose"
             /\ famLog[i].live
             /\ ~KeysEqual(famLog[i].key, famLog[h].key)
             /\ \A k \in ((h + 1)..(j - 1)) \ {i} : famLog[k].op = "get")
                => /\ famLog[j].member = famLog[h].member
                   /\ ~famLog[j].made)

C20_Witness ==
    /\ Len(famLog) = 5
    /\ famLog[1].op = "get" /\ famLog[1].made
    /\ famLog[2].op = "get" /\ famLog[2].made
    /\ famLog[3].op = "dispose" /\ famLog[3].live
    /\ famLog[3].member = famLog[1].member
    /\ famLog[4].op = "get" /\ famLog[4].key = famLog[2].key
    /\ famLog[4].member = famLog[2].member /\ ~famLog[4].made
    /\ famLog[5].op = "get" /\ KeysEqual(famLog[5].key, famLog[1].key)
    /\ famLog[5].key # famLog[1].key
    /\ famLog[5].made /\ famLog[5].member = 3
    /\ Len(map) = 2

\* the call just made is the dispose of a member the family no longer holds
IsStaleDispose ==
    /\ Len(famLog') = Len(famLog) + 1
    /\ famLog'[Len(famLog')].op = "dispose"
    /\ ~famLog'[Len(famLog')].live

\* C21: dispose called again on a member that has been evicted (by its own
\* dispose or by clear, also after a new member was made under its key)
\* leaves every entry of the family in place.
C21_DisposeIsIdempotent == [][IsStaleDispose => map' = map]_vars

\* ----------------------------------------------------- claims, SpecHydrate

\* the call just made on the store
IsCall(op) == hydLog'.op = op /\ hydLog' # hydLog

\* the slots of a collection: its plain keys and its families' member keys
SlotsOf(entries) ==
    {[key |-> entries[i].key, member |-> NoMember] :
        i \in {j \in DOMAIN entries : ~entries[j].fam}}
      \cup UNION {{[key |-> entries[i].key, member |-> entries[i].members[j].key] :
                      j \in DOMAIN entries[i].members} :
                  i \in {j \in DOMAIN entries : entries[j].fam}}

\* the value the collection records for one of its slots
Recorded(entries, slot) ==
    LET i == CHOOSE j \in DOMAIN entries : entries[j].key = slot.key
    IN  IF slot.member = NoMember
        THEN entries[i].data
        ELSE LET ms == entries[i].members
             IN  ms[CHOOSE j \in DOMAIN ms : ms[j].key = slot.member].data

\* the container the store holds for a slot, NoBlok if it holds none
Holder(hd, slot) ==
    LET at == ItemAt(hd, slot.key)
    IN  IF at = 0 THEN NoBlok
        ELSE IF slot.member = NoMember
        THEN (IF hd[at].fam THEN NoBlok ELSE hd[at].blok)
        ELSE IF ~hd[at].fam \/ MemberAt(hd[at].members, slot.member) = 0
        THEN NoBlok
        ELSE hd[at].members[MemberAt(hd[at].members, slot.member)].blok

\* the store with its containers taken off
Unheld(hd) ==
    [i \in DOMAIN hd |->
        [hd[i] EXCEPT !.blok = NoBlok,
                      !.members = [j \in DOMAIN hd[i].members |->
                                      [hd[i].members[j] EXCEPT !.blok = NoBlok]]]]

\* the store was hydrated from a collection, holds that collection's slots and
\* values and no other, and every slot has a container whose data is the value
\* the collection records for it
RoundTripped ==
    /\ origin # NoCollection
    /\ Unheld(hydratedData) = HydrateFrom(origin.entries)
    /\ \A slot \in SlotsOf(origin.entries) :
           /\ Holder(hydratedData, slot) # NoBlok
           /\ state[Holder(hydratedData, slot)].data = Recorded(origin.entries, slot)

\* C22: in a store hydrated from a collection dehydrate returned, a container
\* created for a slot of the collection holds the value recorded for the
\* slot, whatever its own initial value; and once every slot has a container
\* that holds its recorded value, dehydrate returns a collection equal to the
\* one the store was hydrated from.
C22_HydrationRoundTrip ==
    /\ [][\A b \in Bloks :
            (/\ IsCall("attach")
             /\ slotOf[b] = NoSlot /\ slotOf'[b] # NoSlot
             /\ origin # NoCollection
             /\ Unheld(hydratedData) = HydrateFrom(origin.entries)
             /\ slotOf'[b] \in SlotsOf(origin.entries))
                => state'[b].data = Recorded(origin.entries, slotOf'[b])]_vars
    /\ [][(IsCall("dehydrate") /\ RoundTripped)
            => returned'.entries = origin.entries]_vars

\* the round trip of C22, for a store whose dehydrate has nothing cached
C22_RoundTripUncached ==
    /\ [][\A b \in Bloks :
            (/\ IsCall("attach")
             /\ slotOf[b] = NoSlot /\ slotOf'[b] # NoSlot
             /\ origin # NoCollection
             /\ Unheld(hydratedData) = HydrateFrom(origin.entries)
             /\ slotOf'[b] \in SlotsOf(origin.entries))
                => state'[b].data = Recorded(origin.entries, slotOf'[b])]_vars
    /\ [][(IsCall("dehydrate") /\ RoundTripped /\ lastDehyratedData = NoCollection)
            => returned'.entries = origin.entries]_vars

\* C23: a dehydrate with no state change of a container of the store since
\* the dehydrate before it returns the identical collection; a dehydrate
\* after a change of a container's data returns a newly computed collection.
C23_CachedUntilDataChanges ==
    /\ [][(/\ IsCall("dehydrate")
           /\ returned # NoCollection
           /\ ~hydLog.stateChanged)
              => returned' = returned]_vars
    /\ [][(IsCall("dehydrate") /\ hydLog.dataChanged)
              => returned'.id = hydLog'.n]_vars

\* the caching of C23, for calls made outside batch
C23_CachedOutsideBatch ==
    /\ [][(/\ IsCall("dehydrate")
           /\ returned # NoCollection
           /\ ~hydLog.stateChanged
           /\ batches = 0)
              => returned' = returned]_vars
    /\ [][(IsCall("dehydrate") /\ hydLog.dataChanged /\ batches = 0)
              => returned'.id = hydLog'.n]_vars

\* the slots the store holds a container for: the keys that stand for a
\* container, and the members of those that stand for a family
LiveSlots(hd) ==
    {[key |-> hd[i].key, member |-> NoMember] :
        i \in {j \in DOMAIN hd : ~hd[j].fam /\ hd[j].blok # NoBlok}}
      \cup UNION {{[key |-> hd[i].key, member |-> hd[i].members[j].key] :
                      j \in {k \in DOMAIN hd[i].members :
                                hd[i].members[k].blok # NoBlok}} :
                  i \in DOMAIN hd}

\* the container the store holds for one of its live slots
LiveBlok(hd, slot) ==
    LET at == ItemAt(hd, slot.key)
    IN  IF slot.member = NoMember
        THEN hd[at].blok
        ELSE hd[at].members[MemberAt(hd[at].members, slot.member)].blok

\* C24: the collection dehydrate returns has an entry for every slot the
\* store holds a container for, and the entry's value is the container's
\* current data.
C24_DehydrateReadsCurrentData ==
    [][IsCall("dehydrate")
         => \A slot \in LiveSlots(hydratedData) :
               /\ slot \in SlotsOf(returned'.entries)
               /\ Recorded(returned'.entries, slot)
                      = state[LiveBlok(hydratedData, slot)].data]_vars

\* C25: dataOf and dataOfMember leave the state of every container as it
\* is; a container created for a slot after the slot was written starts with
\* the value written last, and its own initial value is not set.
C25_WriteIsForLaterContainers ==
    /\ [][IsCall("dataOf") => state' = state /\ changes' = changes]_vars
    /\ [][\A b \in Bloks :
            (/\ IsCall("attach")
             /\ slotOf[b] = NoSlot /\ slotOf'[b] # NoSlot
             /\ hydLog.written[slotOf'[b]] # UndefinedData)
                => /\ state'[b] = [Blank EXCEPT !.data = hydLog.written[slotOf'[b]]]
                   /\ changes'[b] = changes[b]
                   /\ batchChanges' = batchChanges]_vars

\* a slot was written while one container held it, and a second container
\* was created for it: the first has kept its data, the second has the
\* value written
C25_Witness ==
    /\ hydLog.op = "attach"
    /\ slotOf[1] # NoSlot
    /\ slotOf[2] = slotOf[1]
    /\ hydLog.written[slotOf[1]] = 1
    /\ state[1].data = HydInitial
    /\ state[2].data = 1
    /\ changes[2] = 0

\* ----------------------------------------------------- claims, SpecRefresh

\* the call just made on container 1
IsRefreshCall(op) == refLog'.op = op /\ refLog'.n = refLog.n + 1

\* C26: once dispose has run, called once or again, a refresh callback run
\* by the timeout or by the scheduler neither invokes the producer nor
\* changes the container's state nor schedules a further refresh, also when
\* a reset or a set has been made since; the container stays disposed, and
\* the producer runs again by a read or a reset only.
C26_NoRefreshAfterDispose ==
    /\ [][(disposed /\ IsRefreshCall("refresh"))
            => /\ produced' = produced
               /\ state' = state
               /\ changes' = changes
               /\ refreshes' \subseteq refreshes
               /\ autoRefreshTimer' = autoRefreshTimer]_vars
    /\ [][disposed => disposed']_vars
    /\ [][(disposed /\ produced' # produced)
            => IsRefreshCall("data") \/ IsRefreshCall("reset")]_vars

\* the container has refreshed, was disposed twice and then reset, and the
\* callback the reset has scheduled has run
C26_Witness ==
    /\ disposed
    /\ refLog.op = "refresh"
    /\ refLog.late
    /\ refLog.disposes >= 2
    /\ produced[1] >= 2
    /\ refreshes = {}

\* -------------------------------------------------------- claims, SpecWait

\* the call just made on container 1
IsWaitCall(op) == waitLog'.op = op /\ waitLog'.n = waitLog.n + 1

\* C27: wait() on a loading container returns a pending promise made in the
\* loading episode the container is in, the same for every call of the
\* episode; the promise settles at the container's next notification and not
\* before.
C27_OneFuturePerLoadingEpisode ==
    /\ [][(IsWaitCall("wait") /\ state[1].loading)
            => /\ promises'[waitLog'.result].status = "pending"
               /\ promises'[waitLog'.result].episode = episode
               /\ \A i \in DOMAIN promises :
                      promises[i].episode = episode => waitLog'.result = i]_vars
    /\ [][\A i \in DOMAIN promises :
            promises[i].status = "pending"
               => (promises'[i].status # "pending" <=> changes'[1] # changes[1])]_vars

\* the claim of C27, for containers that are not set inside batch
C27_OneFutureOutsideBatch ==
    /\ [][(IsWaitCall("wait") /\ state[1].loading /\ batches = 0)
            => /\ promises'[waitLog'.result].status = "pending"
               /\ promises'[waitLog'.result].episode = episode
               /\ \A i \in DOMAIN promises :
                      promises[i].episode = episode => waitLog'.result = i]_vars
    /\ [][\A i \in DOMAIN promises :
            promises[i].status = "pending"
               => (promises'[i].status # "pending" <=> changes'[1] # changes[1])]_vars

\* ghost: no function has been added twice and the emitter was never cleared
DistinctHandlers ==
    /\ ~emitLog.cleared
    /\ \A r, q \in DOMAIN registrations :
           registrations[r].handler = registrations[q].handler => r = q

\* C28: an emission invokes every listener that was subscribed when it started
\* exactly once, in subscription order, whatever is unsubscribed or subscribed
\* while it runs; a listener subscribed during it is invoked by the next one
C28_EmissionInvokesSubscribed == emitLog.invoked = emitLog.due

\* the same, for handlers that are distinct functions on an emitter that was
\* never cleared
C28_EmissionOfDistinctHandlers ==
    DistinctHandlers => emitLog.invoked = emitLog.due

\* an emission of distinct handlers has ended during which a listener was
\* unsubscribed and another one subscribed
C28_DistinctWitness ==
    /\ DistinctHandlers
    /\ emitLog.emits > 0
    /\ Len(emitLog.invoked) = 2
    /\ ~emission.on
    /\ Len(registrations) = 3
    /\ ~registrations[2].subscribed
    /\ registrations[3].subscribed
    /\ Len(handlers) = 2

\* the step is a merge call on the profile
IsMerge == mergeLog'.n = mergeLog.n + 1 /\ mergeLog'.op = "merge"

\* ghost: a key of the partial object has a value the profile does not have
Differs(partial, data) ==
    \E key \in DOMAIN partial : partial[key] # Properties(data)[key]

\* ghost: the profile with the keys of the partial object overwritten
Overwritten(partial, data) ==
    [key \in Fields |-> IF key \in DOMAIN partial THEN partial[key]
                        ELSE Properties(data)[key]]

\* ghost: what a merge call does to the data and how often it notifies
MergeOutcome ==
    IF Differs(mergeLog'.partial, state[1].data)
    THEN /\ state'[1].data # state[1].data
         /\ (state'[1].data - Content(state'[1].data)) = Obj(mergeLog'.made, 0)
         /\ mergeLog'.made = mergeLog.made + 1
         /\ Properties(state'[1].data) = Overwritten(mergeLog'.partial, state[1].data)
         /\ changes'[1] = changes[1] + 1
    ELSE /\ state'[1].data = state[1].data
         /\ changes'[1] = changes[1]

\* C29: merge(partial) on a settled container keeps the data reference and sends
\* no notification if no key of partial differs from the data; otherwise the
\* data is a new object, the old one with partial's keys overwritten, and one
\* notification is sent
C29_MergeSkipsOrOverwrites == [][IsMerge => MergeOutcome]_vars

\* the same, for a profile that holds no error when merge is called
C29_MergeWithoutError ==
    [][IsMerge /\ state[1].error = Undefined => MergeOutcome]_vars

\* C30: when a set call supersedes an update whose updater was passed an
\* UpdateContext, that context's cancel() has been invoked: its signal, if the
\* updater read it, is aborted
C30_SupersededUpdateIsCancelled ==
    \A c \in DOMAIN updateContexts :
        updateLog.superseded = c /\ updateContexts[c].abortController
            => updateContexts[c].aborted

\* the step creates container b with options.hydrate
IsAttach(b) == slotOf[b] = NoSlot /\ slotOf'[b] # NoSlot

\* ghost: the snapshot value the slot holds in the Map, undefined if none was
\* written to it
SlotData(hd, slot) ==
    LET at == ItemAt(hd, slot.key)
    IN  IF at = 0 THEN UndefinedData
        ELSE IF slot.member = NoMember THEN hd[at].data
        ELSE IF MemberAt(hd[at].members, slot.member) = 0 THEN UndefinedData
        ELSE hd[at].members[MemberAt(hd[at].members, slot.member)].data

\* ghost: a container created on the slot starts with the slot's value if the
\* slot holds one, and with its own initial value otherwise
StartsFrom(b, slot) ==
    IF SlotData(hydratedData, slot) # UndefinedData
    THEN state'[b].data = SlotData(hydratedData, slot)
    ELSE state'[b].data = HydInitial

\* C31: the hook of of(key) / ofMember(key, memberKey) reports a pre-seeded slot
\* only when the slot holds a value written by hydrate(collection) or dataOf;
\* a container attaching to any other slot starts with its own initial value
C31_PreSeededOnlyWhenWritten ==
    [][\A b \in Bloks : IsAttach(b) => StartsFrom(b, slotOf'[b])]_vars

\* the same, for slots that hold a value or have no entry in the Map at all
C31_SeededOrAbsent ==
    [][\A b \in Bloks :
           /\ IsAttach(b)
           /\ \/ SlotData(hydratedData, slotOf'[b]) # UndefinedData
              \/ ItemAt(hydratedData, slotOf'[b].key) = 0
           => StartsFrom(b, slotOf'[b])]_vars

\* ghost: promise p is settled as the settled state s demands: resolved with the
\* data, or rejected with the error if there is one
SettledAs(p, s) ==
    IF s.error = Undefined
    THEN p.status = "resolved" /\ p.x = s.data
    ELSE p.status = "rejected" /\ p.e = s.error

\* the step makes promise p of wait() already settled
MadeSettled(p) == p \notin DOMAIN promises /\ promises'[p].status # "pending"

\* the step settles promise p, which wait() had returned during loading
SettlesPending(p) ==
    /\ p \in DOMAIN promises
    /\ promises[p].status = "pending"
    /\ promises'[p].status # "pending"

\* C32: the promise of wait() resolves with data when the container is settled
\* without error and rejects with the error when it is settled with one, whether
\* wait() was called during loading or on a settled container
C32_WaitResolvesOrRejects ==
    [][\A p \in DOMAIN promises' :
           (MadeSettled(p) \/ SettlesPending(p)) /\ ~state'[1].loading
               => SettledAs(promises'[p], state'[1])]_vars

\* the same, for the promises wait() returned during loading
C32_WaitDuringLoading ==
    [][\A p \in DOMAIN promises' :
           SettlesPending(p) /\ ~state'[1].loading
               => SettledAs(promises'[p], state'[1])]_vars

\* the step is a change of a source: a set call, or its promise settling
IsSourceChange == lastOp'.n # lastOp.n \/ settled' # settled

\* C33: dispose() of a derived container calls the unsubscribe function of each
\* source subscription once in total, however often it is called, and after it
\* no change of a source runs the selector or changes the derived container
C33_DisposeUnsubscribesOnce ==
    [][/\ unlink'.disposes > 0 => \A a \in Sources : unlink'.called[a] = 1
       /\ unlink.disposes > 0 /\ IsSourceChange
              => state'[Linked] = state[Linked] /\ selLog' = selLog]_vars

\* dispose() was called twice, and a source has changed its data since, which
\* the derived container made without mode has not followed
C33_Witness ==
    /\ unlink.disposes = 2
    /\ link.mode = "none"
    /\ lastOp.op = "set"
    /\ \A a \in Sources : ~state[a].loading /\ state[a].error = Undefined
    /\ \E a \in Sources : state[a].data = 1
    /\ state[Linked] = [data |-> 0, loading |-> FALSE, error |-> Undefined, id |-> 2]

\* C34: in every reachable state of a container, loading implies that error is
\* undefined
C34_LoadingHasNoError ==
    \A b \in Bloks : state[b].loading => state[b].error = Undefined

\* a set call with a promise has taken a container that held an error into
\* loading
C34_Witness ==
    /\ lastOp.op = "setOnError"
    /\ state[1].loading
    /\ state[1].error = Undefined

\* the step is a call of an action
IsAct == actLog'.n = actLog.n + 1 /\ actLog'.reducer # "none"

\* C35: an action called with a1..an invokes its reducer with the current data,
\* the update context and then a1..an, and its result goes through set
C35_ReducerGetsDataFirst ==
    [][IsAct => /\ actLog'.received
                     = <<state[1].data, ContextObject>> \o actLog'.outer
                /\ lastSet'[1].x = Apply(actLog'.reducer,
                                         <<state[1].data, ContextObject>>
                                             \o actLog'.outer)
                /\ calls'[1] = calls[1] + 1]_vars

\* the same, for actions called without arguments
C35_WithoutArguments ==
    [][IsAct /\ actLog'.outer = <<>>
           => /\ actLog'.received = <<state[1].data, ContextObject>>
              /\ lastSet'[1].x = Apply(actLog'.reducer,
                                       <<state[1].data, ContextObject>>)
              /\ calls'[1] = calls[1] + 1]_vars

\* ghost: the registrations that are in the handlers array
Registered(hs) == {hs[i].registration : i \in DOMAIN hs}

\* ghost: every registration the step takes out of the handlers array is one
\* whose own unsubscribe function was called, or that clear() dropped
RemovesOwn ==
    \A q \in Registered(handlers) \ Registered(handlers') :
        ~registrations'[q].subscribed

\* C36: an unsubscribe function removes only the registration it was returned
\* for, however often and whenever it is called, also after clear() and new
\* subscriptions; it never removes another listener's registration
C36_UnsubscribeRemovesOwnOnly == [][RemovesOwn]_vars

\* the same, for handlers that are distinct functions on an emitter that was
\* never cleared
C36_OfDistinctHandlers == [][DistinctHandlers' => RemovesOwn]_vars

\* ghost: a plain set call was issued after the mode call numbered call
Superseded(call) ==
    \E j \in DOMAIN modeLog : j > call /\ modeLog[j].mode = "none"

\* C37: a plain set(y) issued while set(x, debounce(ms)) is pending supersedes
\* it: the timer's callback never applies x after y
C37_PlainSetSupersedesDebounce ==
    [][Len(realized') > Len(realized)
           => ~Superseded(realized'[Len(realized')].call)]_vars

\* the step is the first read of data on lazy container b, made after a set
\* call with a plain value and no other call that ran the initializer
IsFirstReadAfterSet(b) ==
    /\ lastOp'.n # lastOp.n
    /\ lastOp'.op \in {"data", "get"}
    /\ ~initialized[b]
    /\ calls[b] > 0
    /\ lastSet[b].kind = "value"

\* C38: on a lazy container, a plain value written with set(v) before the first
\* read of data is what the first read returns: the initializer does not
\* overwrite it
C38_SetBeforeFirstReadIsKept ==
    [][IsFirstReadAfterSet(1) => state'[1].data = lastSet[1].x]_vars

\* the step is a batch call ending by an exception
IsThrow == outcome'.throws = outcome.throws + 1

\* ghost: the step delivers one notification for each container a notification
\* was queued for, and no other
DeliversQueued ==
    \A b \in Bloks : changes'[b] = changes[b] + (IF muts[b] > 0 THEN 1 ELSE 0)

\* the step is a set call outside any batch that changes the state of b, after
\* a batch has thrown
IsMutationAfterThrow(b) ==
    /\ outcome.throws > 0
    /\ mutationCount = 0
    /\ state'[b] # state[b]

\* C39: if the function passed to batch throws, the exception goes on to the
\* caller, the counter is back at its value before the call, what was queued is
\* delivered when the outermost batch exits, and a later mutation outside any
\* batch notifies at once
C39_ThrowingBatchStillFlushes ==
    [][/\ IsThrow => /\ outcome'.propagating
                     /\ mutationCount' = outcome.stack[Len(outcome.stack)]
                     /\ IF mutationCount' = 0
                        THEN DeliversQueued
                        ELSE changes' = changes /\ batchChanges' = batchChanges
       /\ \A b \in Bloks :
              IsMutationAfterThrow(b) => changes'[b] = changes[b] + 1]_vars

\* the only batch so far has thrown and delivered what was queued, and a set
\* call made afterwards has notified at once
C39_Witness ==
    /\ outcome.throws = 1
    /\ outcome.returns = 0
    /\ batches = 1
    /\ mutationCount = 0
    /\ flushLog # <<>>
    /\ \E b \in Bloks : changes[b] = entry[b] + 2

\* the step resolves promise p, which wait() had returned during loading
ResolvesPending(p) == SettlesPending(p) /\ promises'[p].status = "resolved"

\* C40: a promise wait() returned during loading never resolves while the
\* container is loading, also when the container is updated inside a batch
C40_NeverResolvesWhileLoading ==
    [][\A p \in DOMAIN promises : ResolvesPending(p) => ~state'[1].loading]_vars

\* the same, for containers that are never set inside batch
C40_ResolvesSettledOutsideBatch ==
    [][\A p \in DOMAIN promises :
           ResolvesPending(p) /\ batches' = 0 => ~state'[1].loading]_vars

====
